---- MODULE Spec2Model ----
(***************************************************************************)
(* Verification model of the my-agent backend (backend/app).               *)
(*                                                                         *)
(* Part I   - the session gate: SessionStore's two Lua scripts, the login  *)
(*            path of AuthService and get_current_user.                    *)
(* Part II  - the streaming turn: ChatService.stream, AgentService.stream, *)
(*            the /chat/stream route, ConversationService and the chat     *)
(*            sub-graph of create_agent_graph.                             *)
(***************************************************************************)
EXTENDS Integers, Sequences, FiniteSets, TLC

(***************************************************************************)
(* Bounds of the model                                                     *)
(***************************************************************************)
\* last instant of the clock; one tick of the clock is one second
MaxTime == 3
\* how many login() calls are started in one behaviour
MaxLogins == 4
\* jwt_expire_minutes * 60, in ticks of the model's clock
TtlSec == 3

\* how many turns (stream requests) are started in one behaviour
MaxTurns == 2
\* how many deltas the model produces in one behaviour, over all its calls
MaxDeltas == 2
\* how many times the model answers with tool_calls in one behaviour
MaxToolRounds == 1
\* how many rows calls of the conversation store insert in one behaviour
MaxRows == 3
\* largest deep_search_max_rounds a deployment is configured with
MaxRounds == 2
\* how many checkpoints concurrent invocations put on one thread in one behaviour
MaxCheckpoints == 4
\* how many chat turns a conversation may have had before the behaviour begins
MaxPastTurns == 10

(***************************************************************************)
(* Program constants                                                       *)
(***************************************************************************)
\* default of save_session's max_login_num parameter
DefaultMaxLoginNum == 3

\* the concurrent callers of login()
Clients == {1, 2}
\* the values of User.max_login_num that are looked at
UserMaxLoginNums == {2, 3}
\* a JWT of one user is determined by its iat second (HS256 is deterministic)
TokenIds == 0..MaxTime
NoScore == -1

VARIABLES
    now,            \* the clock (time.time(), datetime.now, Redis' clock)
    zindex,         \* sorted set agent:user:{uid}: member -> score, NoScore = not a member
    index_exp,      \* expiry instant of the sorted set key, 0 = no TTL / no key
    detail,         \* agent:user:{uid}:session:{token}: expiry instant, 0 = key absent
    login,          \* per caller: position inside AuthService.login and its locals
    issued,         \* tokens returned by login(), in order of return
    max_login_num,  \* User.max_login_num of the user
    sess_op,        \* the last Redis operation that completed, with what the script did
    serial,         \* no two logins overlapped and no logout ran so far
    messages,       \* table t_message, in insertion order
    convs,          \* table t_conversation
    checkpoints,    \* the checkpoint store, in order of put
    svc,            \* entry point of the turn: "chat", "agent" or "route"
    pc,             \* position of the turn inside the entry point
    req,            \* arguments of the turn
    node,           \* graph node the invocation is at
    step,           \* position inside the node: "enter", "llm_open" and "llm" (model
                    \* call open, nothing streamed yet / streaming), "tool"
    gmessages,      \* channel `messages` of the graph state of the invocation
    full_reply,     \* local full_reply of stream()
    log,            \* what the turn did so far, in order: records sent to the client,
                    \* checkpoint puts and message inserts
    has_model,      \* the deployment has a chat model configured
    db,             \* the database server: its clock (the source of create_time) and the
                    \* last id generate_id() gave out
    persist,        \* a persist_message call between its two commits
    answer,         \* the last call of the conversation store that returned, and its result
    run,            \* one invocation of the compiled graph, on its own
    auth,           \* the last answer of get_current_user
    inv,            \* per caller: an invocation of the checkpointed graph on the thread
    cp_answer,      \* the last answer of get_sibling_checkpoints
    rag,            \* the chunk table and a hybrid search between its two queries
    bridge,         \* CustomChatModel._astream: the worker thread, the queue, the consumer
    snow,           \* the SnowflakeGenerator of the process and the clock it reads
    cb,             \* the chat sub-graph on a thread: its channels and what chatbot_node
                    \* handed to the model
    deep,           \* the deep_search sub-graph on a thread: its channels over the turns
    turn            \* bookkeeping of the turn: turns started, rows before it, deltas, tool rounds

sessVars == <<now, zindex, index_exp, detail, login, issued,
              max_login_num, sess_op, serial>>

turnVars == <<messages, convs, checkpoints, svc, pc, req, node, step, gmessages,
              full_reply, log, has_model, turn>>

storeVars == <<db, persist, answer>>

graphVars == <<run>>

authVars == <<auth>>

threadVars == <<inv, cp_answer>>

ragVars == <<rag>>

bridgeVars == <<bridge>>

unitVars == <<snow, cb, deep>>

\* the parts that are modelled on their own
extVars == <<authVars, threadVars, ragVars, bridgeVars, unitVars>>

vars == <<sessVars, turnVars, storeVars, graphVars, extVars>>

NoToken == -1
IdleLogin == [pc |-> "idle", token |-> NoToken, score |-> NoScore]
NoOp(op) == [op |-> op, kicked |-> 0, swept |-> 0]

\* ZRANGE indexKey 0 -1 (as a set)
Members(ix) == {t \in TokenIds : ix[t] # NoScore}

\* ZCARD indexKey
ZCARD(ix) == Cardinality(Members(ix))

\* create_access_token: the token is a function of (user, iat second)
create_access_token(t) == t

\* jwt.decode: signature is valid for minted tokens; exp = iat + ttl is checked in seconds
decode_token(tok, t) == t <= tok + TtlSec

\* get_current_user that does not look the session up in Redis
load_session_JwtOnly(det, tok) == TRUE

\* SessionStore.load_session: GET of the detail key
load_session(det, tok) == det[tok] # 0

\* get_current_user: 401 unless the JWT decodes and the Redis session exists
Authenticate(det, tok, t) ==
    IF ~decode_token(tok, t) THEN "Unauthorized"
    ELSE IF ~load_session(det, tok) THEN "Unauthorized"
    ELSE "OK"

\* first loop of SAVE_SESSION_SCRIPT: members whose GET returns nil
ExpiredMember(ix, det) == {t \in Members(ix) : det[t] = 0}

\* ZREM of the expired members
SweepIndex(ix, det) ==
    [t \in TokenIds |-> IF t \in ExpiredMember(ix, det) THEN NoScore ELSE ix[t]]

\* how many members ZPOPMIN is asked to pop: nothing is popped although the cap is exceeded
OverCount_NoEvict(card, maxLoginNum) == 0

\* currentLoginNum - maxLoginNum when currentLoginNum > maxLoginNum
OverCount(card, maxLoginNum) ==
    IF card > maxLoginNum THEN card - maxLoginNum ELSE 0

\* ZPOPMIN indexKey over: the sets of `over` members of lowest score.  Members of
\* equal score are ordered by Redis on the bytes of the key, an order on the JWT
\* strings that the token ids do not carry: every tie-break is admitted.
ZPopMinChoices(ix, over) ==
    {P \in SUBSET Members(ix) :
        /\ Cardinality(P) = IF over > ZCARD(ix) THEN ZCARD(ix) ELSE over
        /\ \A p \in P : \A q \in Members(ix) \ P : ix[p] <= ix[q]}

\* the session keys deleted for the popped members: the eviction forgets the detail keys
EvictedDetail_KeepKeys(det, popped) == det

\* UNLINK of the detail keys of the popped members
EvictedDetail(det, popped) ==
    [t \in TokenIds |-> IF t \in popped THEN 0 ELSE det[t]]

(***************************************************************************)
(* Part II - the streaming turn                                            *)
(***************************************************************************)
Null == 0
Users == {1, 2}
ConvIds == {1}
\* text is a sequence of characters; "p" stands for a pronoun of rewrite_query
Pronouns == {"p"}
Contents == {<<"q">>, <<"p">>}
\* the text the model produces, delta by delta
Letters == <<"a", "b", "c", "d", "e", "f", "g", "h">>
\* chunk.content of the k-th on_chat_model_stream event that carries text
Delta(k) == <<Letters[k]>>
\* SYSTEM_PROMPT
SYSTEM_PROMPT == <<"s">>
\* "Agent 未能生成回复"
AgentNoReply == <<"n">>
\* default of settings.max_history_messages
MaxHistoryMessages == 20
\* default of settings.max_history_tokens
MaxHistoryTokens == 4000
GraphNodes == {"router", "rewrite", "context_retrieval", "chatbot", "tools"}
\* the nodes whose tokens are meant for the client
OutputNodes == {"chatbot", "summary"}
EventTypes == {"chunk", "tool_start", "tool_end", "done", "error"}

NoReq == [user_id |-> Null, conversation_id |-> Null, content |-> <<>>,
          regenerate |-> FALSE, parent_message_id |-> Null]
\* no persist_message call is between its commits
NoPersist == [pc |-> "idle", id |-> Null, conversation_id |-> Null]
\* nothing was asked of the conversation store yet
NoAnswer == [op |-> "none", conversation_id |-> Null, id |-> Null, result |-> <<>>]
\* no request was authenticated
NoAuth == [token |-> -1, reachable |-> TRUE, status |-> 0]

\* the concurrent callers of a checkpointed invocation on one thread
Invokers == {1, 2}

\* the caller has no invocation running
IdleInv == [pc |-> "idle", cursor |-> Null, messages |-> <<>>]

\* get_sibling_checkpoints was not asked
NoCpAnswer == [checkpoint_id |-> Null, siblings |-> {}]

\* the chunks of the knowledge base: one chunk per document, its key
\* f"{document_id}_{chunk_index}"
ChunkKeys == {"A", "B", "C"}

\* a query gives every chunk a cosine similarity and a BM25 score
NoQuery == [sim |-> [c \in ChunkKeys |-> 0], bm |-> [c \in ChunkKeys |-> 0]]

\* t_document_chunk is empty and no hybrid search was started
NoRag ==
    [pc |-> "idle", chunks |-> {}, query |-> NoQuery, mode |-> "union", top_k |-> 0,
     vector_results |-> <<>>, bm25_results |-> <<>>, result |-> <<>>]

\* SnowflakeGenerator.__init__; the clock counts milliseconds from EPOCH and did not
\* start yet, no id was asked for
NoSnow ==
    [sequence |-> 0, last_timestamp |-> -1, clock |-> 0, pc |-> "free", holder |-> 0,
     id |-> -1, prev |-> -1, outcome |-> "none"]

\* the thread has no state and chatbot_node was not run
NoCb ==
    [messages |-> <<>>, kb_context |-> FALSE, history_context |-> FALSE, node |-> "none",
     tools |-> FALSE, sent |-> <<>>]

\* no turn was started, so no channel was read at the start of one
NoBegun == [planning_rounds |-> 0, search_queries |-> FALSE, references |-> FALSE]

\* the thread has no state and no turn was started
NoDeep ==
    [status |-> "idle", node |-> "none", turns |-> 0, latest |-> 0, question |-> 0,
     planning_rounds |-> 0, search_queries |-> FALSE, references |-> FALSE,
     max_rounds |-> 0, begun |-> NoBegun, used |-> {}, rounds |-> 0]

\* _astream was not called: no queue, no worker thread
NoBridge ==
    [pc |-> "idle", queue |-> <<>>, thread |-> "none", emitted |-> 0,
     error_holder |-> FALSE, yielded |-> <<>>]

\* the graph was not invoked
NoRun == [status |-> "idle", mode |-> "chat", tools |-> FALSE, max_rounds |-> 0,
          node |-> "none", trace |-> <<>>, planning_rounds |-> 0, search_queries |-> FALSE,
          tool_rounds |-> 0, planner_always_asks |-> TRUE, llm_error |-> "none"]

NoTurn == [started |-> 0, base |-> 0, deltas |-> 0, tool_rounds |-> 0, user_message |-> Null,
           error |-> "none", call |-> <<>>]

\* one entry of the log
Rec(type, content, tool, nd, ref) ==
    [type |-> type, content |-> content, tool |-> tool, node |-> nd, ref |-> ref]

\* one event of astream_events(version="v2")
GraphEvent(kind, nd, content, name) ==
    [event |-> kind, node |-> nd, content |-> content, name |-> name]

\* "".join(parts)
RECURSIVE Join(_)
Join(parts) == IF parts = <<>> THEN <<>> ELSE Head(parts) \o Join(Tail(parts))

\* any(p in original_query for p in pronouns)
HasPronoun(content) == \E i \in 1..Len(content) : content[i] \in Pronouns

\* ensure_owner that lets every caller through
EnsureOwner_Anyone(cs, conversation_id, user_id) == TRUE

\* ensure_owner: the conversation exists and belongs to the user
EnsureOwner(cs, conversation_id, user_id) ==
    conversation_id \in DOMAIN cs /\ cs[conversation_id].user_id = user_id

\* generate_id(): snowflake ids grow with every insert
NextId(d) == d.last_id + 1

\* the Message row persist_message inserts
NewMessage(msgs, conversation_id, role, content, parent_id, checkpoint_id) ==
    [id |-> NextId(db), conversation_id |-> conversation_id, role |-> role,
     content |-> content, parent_id |-> parent_id, checkpoint_id |-> checkpoint_id,
     create_time |-> db.time]

\* the UPDATE of persist_message: last_message_id (and last_message_at) of the conversation
PointTo(cs, conversation_id, id) ==
    [cs EXCEPT ![conversation_id].last_message_id = id]

\* rows of one conversation, ORDER BY create_time, id
ConvMessages(msgs, conversation_id) ==
    SelectSeq(msgs, LAMBDA m : m.conversation_id = conversation_id)

MsgById(msgs, id) == CHOOSE m \in {msgs[i] : i \in 1..Len(msgs)} : m.id = id

\* history(): walk from current_message_id up to the root
RECURSIVE PathToRoot(_, _, _)
PathToRoot(msgs, ids, m) ==
    IF m.parent_id # Null /\ m.parent_id \in ids
    THEN Append(PathToRoot(msgs, ids, MsgById(msgs, m.parent_id)), m)
    ELSE <<m>>

\* history(): default strategy, the newest child at every branching point
RECURSIVE NewestPath(_, _)
NewestPath(all, m) ==
    LET children == {all[i] : i \in {j \in 1..Len(all) : all[j].parent_id = m.id}}
    IN IF children = {} THEN <<m>>
       ELSE <<m>> \o NewestPath(all, CHOOSE c \in children : \A d \in children : d.id <= c.id)

\* ConversationService.history
History(msgs, cs, conversation_id) ==
    LET all   == ConvMessages(msgs, conversation_id)
        ids   == {all[i].id : i \in 1..Len(all)}
        cur   == cs[conversation_id].current_message_id
        roots == SelectSeq(all, LAMBDA m : m.parent_id = Null)
    IN IF all = <<>> THEN <<>>
       ELSE IF cur # Null /\ cur \in ids THEN PathToRoot(all, ids, MsgById(all, cur))
       ELSE IF roots = <<>> THEN all
       ELSE NewestPath(all, roots[1])

\* get_sibling_messages: ids of the rows with the parent_id of the message, ORDER BY
\* create_time; the message alone if it does not exist or has no parent
GetSiblingMessages(msgs, message_id) ==
    LET found == {i \in 1..Len(msgs) : msgs[i].id = message_id}
        cur   == msgs[CHOOSE i \in found : TRUE]
        sibs  == SelectSeq(msgs, LAMBDA m : m.parent_id = cur.parent_id)
    IN IF found = {} \/ cur.parent_id = Null
       THEN [total |-> 1, siblings |-> <<message_id>>]
       ELSE [total |-> Len(sibs), siblings |-> [i \in 1..Len(sibs) |-> sibs[i].id]]

\* a LangChain message of the graph state
GMsg(role, content) == [role |-> role, content |-> content, tool_calls |-> FALSE]

\* the AIMessage a model call returns
AIMessage(content, tool_calls) == [role |-> "ai", content |-> content, tool_calls |-> tool_calls]

\* tools_condition: "tools" if the last message is an AIMessage with tool_calls
tools_condition(ms) ==
    IF ms[Len(ms)].role = "ai" /\ ms[Len(ms)].tool_calls THEN "tools" ELSE "__end__"

\* rewrite_query: the query is rewritten only if the last message is a HumanMessage
\* with a pronoun and it is not the only message
NeedsRewrite(ms) ==
    /\ ms # <<>>
    /\ ms[Len(ms)].role = "human"
    /\ HasPronoun(ms[Len(ms)].content)
    /\ Len(ms) > 1

\* _load_history_from_db: history[-(limit + 1):-1], as Human/AI messages
LoadHistoryFromDb(msgs, cs, conversation_id) ==
    LET h     == History(msgs, cs, conversation_id)
        first == IF Len(h) - MaxHistoryMessages > 1 THEN Len(h) - MaxHistoryMessages ELSE 1
        recent == IF Len(h) > 1 THEN SubSeq(h, first, Len(h) - 1) ELSE <<>>
        known == SelectSeq(recent, LAMBDA m : m.role \in {"user", "assistant"})
    IN [i \in 1..Len(known) |->
            GMsg(IF known[i].role = "user" THEN "human" ELSE "ai", known[i].content)]

\* _build_messages_with_history with rag_context = None
BuildMessagesWithHistory(msgs, cs, conversation_id, content) ==
    <<GMsg("system", SYSTEM_PROMPT)>> \o LoadHistoryFromDb(msgs, cs, conversation_id)
        \o <<GMsg("human", content)>>

\* estimate_tokens summed over the messages
RECURSIVE TotalTokens(_)
TotalTokens(ms) ==
    IF ms = <<>> THEN 0 ELSE (Len(Head(ms).content) \div 2) + TotalTokens(Tail(ms))

\* while total_tokens > max_tokens and len(other_messages) > 1: pop(0)
RECURSIVE TrimTokens(_)
TrimTokens(ms) ==
    IF TotalTokens(ms) > MaxHistoryTokens /\ Len(ms) > 1 THEN TrimTokens(Tail(ms)) ELSE ms

\* _trim_messages
TrimMessages(ms) ==
    LET system == SelectSeq(ms, LAMBDA m : m.role = "system")
        other  == SelectSeq(ms, LAMBDA m : m.role # "system")
        recent == IF Len(other) > MaxHistoryMessages
                  THEN SubSeq(other, Len(other) - MaxHistoryMessages + 1, Len(other))
                  ELSE other
    IN system \o TrimTokens(recent)

\* the graph is compiled with a checkpointer nowhere
Checkpointer_None(s) == FALSE

\* ChatService compiles the graph with a checkpointer, create_default_agent of
\* AgentService without one
Checkpointer(s) == s = "chat"

\* tools bound to the graph: ChatService passes tools=[], AgentService the default tool set
HasTools(s) == s = "agent"

\* checkpoints of one thread, oldest first (as indices into the store)
ThreadCheckpoints(cps, thread_id) == {i \in 1..Len(cps) : cps[i].thread_id = thread_id}

LatestCheckpoint(cps, thread_id) ==
    IF ThreadCheckpoints(cps, thread_id) = {} THEN Null
    ELSE CHOOSE i \in ThreadCheckpoints(cps, thread_id) :
            \A j \in ThreadCheckpoints(cps, thread_id) : j <= i

\* the state an invocation starts from: the thread's latest checkpoint, if any
ThreadState(s, cps, thread_id) ==
    IF Checkpointer(s) /\ LatestCheckpoint(cps, thread_id) # Null
    THEN cps[LatestCheckpoint(cps, thread_id)].messages
    ELSE <<>>

\* checkpointer.put at the end of a graph step
Put(s, cps, thread_id, ms) ==
    IF Checkpointer(s)
    THEN Append(cps, [thread_id |-> thread_id, parent |-> LatestCheckpoint(cps, thread_id),
                      messages |-> ms])
    ELSE cps

PutLog(s) == IF Checkpointer(s) THEN <<Rec("put", <<>>, "", "", Null)>> ELSE <<>>

\* stream(): the loop takes the end of a tool for the end of the turn
HandleEvent_DoneOnToolEnd(s, ev) ==
    IF ev.event = "on_chat_model_stream"
    THEN IF ev.content # <<>> THEN <<Rec("chunk", ev.content, "", ev.node, -1)>> ELSE <<>>
    ELSE IF ev.event = "on_tool_start"
    THEN IF s = "agent" THEN <<Rec("tool_start", <<>>, ev.name, ev.node, Null)>> ELSE <<>>
    ELSE IF ev.event = "on_tool_end"
    THEN IF s = "agent" THEN <<Rec("done", <<>>, ev.name, ev.node, Null)>> ELSE <<>>
    ELSE <<>>

\* body of `async for event in astream_events(...)`: the records yielded for one event.
\* ChatService only logs on_tool_start / on_tool_end, AgentService yields them.
HandleEvent(s, ev) ==
    IF ev.event = "on_chat_model_stream"
    THEN IF ev.content # <<>> THEN <<Rec("chunk", ev.content, "", ev.node, -1)>> ELSE <<>>
    ELSE IF ev.event = "on_tool_start"
    THEN IF s = "agent" THEN <<Rec("tool_start", <<>>, ev.name, ev.node, Null)>> ELSE <<>>
    ELSE IF ev.event = "on_tool_end"
    THEN IF s = "agent" THEN <<Rec("tool_end", <<>>, ev.name, ev.node, Null)>> ELSE <<>>
    ELSE <<>>

\* full_reply.append(token) of the same loop body
FullReplyAfter(fr, ev) ==
    IF ev.event = "on_chat_model_stream" /\ ev.content # <<>>
    THEN Append(fr, ev.content) ELSE fr

\* reply_text: AgentService substitutes a fixed text for an empty reply
ReplyText(s, fr) ==
    IF s = "agent" /\ Join(fr) = <<>> THEN AgentNoReply ELSE Join(fr)

\* f"暂未接入模型，回显: {content}"
Fallback(content) == <<"e">> \o content

Init ==
    /\ now = 0
    /\ zindex = [t \in TokenIds |-> NoScore]
    /\ index_exp = 0
    /\ detail = [t \in TokenIds |-> 0]
    /\ login = [c \in Clients |-> IdleLogin]
    /\ issued = <<>>
    /\ max_login_num \in UserMaxLoginNums
    /\ sess_op = NoOp("none")
    /\ serial = TRUE
    /\ messages = <<>>
    /\ convs = [c \in ConvIds |-> [user_id |-> 1, last_message_id |-> Null,
                                   current_message_id |-> Null]]
    /\ checkpoints = <<>>
    /\ svc = "none"
    /\ pc = "idle"
    /\ req = NoReq
    /\ node = "none"
    /\ step = "enter"
    /\ gmessages = <<>>
    /\ full_reply = <<>>
    /\ log = <<>>
    /\ has_model \in BOOLEAN
    /\ db = [time |-> 0, last_id |-> 0]
    /\ persist = NoPersist
    /\ answer = NoAnswer
    /\ run = NoRun
    /\ auth = NoAuth
    /\ inv = [i \in Invokers |-> IdleInv]
    /\ cp_answer = NoCpAnswer
    /\ rag = NoRag
    /\ bridge = NoBridge
    /\ snow = NoSnow
    /\ cb = NoCb
    /\ deep = NoDeep
    /\ turn = NoTurn

\* AuthService.login up to the call of the script: create_access_token and the
\* read of now_ms in save_session run without a suspension point in between, so
\* the token and the score are taken at one instant.  The callers are
\* interchangeable: a request is taken by the first caller that is idle.
LoginToken(c) ==
    /\ login[c].pc = "idle"
    /\ \A d \in Clients : d < c => login[d].pc # "idle"
    /\ Len(issued) + Cardinality({d \in Clients : login[d].pc # "idle"}) < MaxLogins
    /\ login' = [login EXCEPT ![c] = [pc |-> "script", token |-> create_access_token(now),
                                      score |-> now]]
    /\ serial' = (serial /\ \A d \in Clients : login[d].pc = "idle")
    /\ UNCHANGED <<now, zindex, index_exp, detail, issued, max_login_num, sess_op>>
    /\ UNCHANGED <<turnVars, storeVars, graphVars, extVars>>

\* SAVE_SESSION_SCRIPT, executed atomically by Redis, and the return of login()
SaveSessionScript(c, maxLoginNum) ==
    /\ login[c].pc = "script"
    /\ LET sessionKey == login[c].token
           swept  == SweepIndex(zindex, detail)
           added  == [swept EXCEPT ![sessionKey] = login[c].score]
           stored == [detail EXCEPT ![sessionKey] = now + TtlSec]
           over   == OverCount(ZCARD(added), maxLoginNum)
       IN \E popped \in ZPopMinChoices(added, over) :
            /\ zindex' = [t \in TokenIds |-> IF t \in popped THEN NoScore ELSE added[t]]
            /\ detail' = EvictedDetail(stored, popped)
            /\ sess_op' = [op |-> "save", kicked |-> Cardinality(popped),
                           swept |-> Cardinality(ExpiredMember(zindex, detail))]
    /\ index_exp' = now + TtlSec
    /\ issued' = Append(issued, login[c].token)
    /\ login' = [login EXCEPT ![c] = IdleLogin]
    /\ UNCHANGED <<now, max_login_num, serial>>
    /\ UNCHANGED <<turnVars, storeVars, graphVars, extVars>>

\* AuthService.login: save_session is called without max_login_num
Login(c) == SaveSessionScript(c, DefaultMaxLoginNum)

\* logout_user: get_current_user accepted the token, then REMOVE_SESSION_SCRIPT
\* runs atomically: DEL sessionKey, ZREM indexKey sessionKey
RemoveSession(tok) ==
    /\ Authenticate(detail, tok, now) = "OK"
    /\ detail' = [detail EXCEPT ![tok] = 0]
    /\ zindex' = [zindex EXCEPT ![tok] = NoScore]
    /\ index_exp' = IF Members(zindex') = {} THEN 0 ELSE index_exp
    /\ sess_op' = NoOp("remove")
    /\ serial' = FALSE
    /\ UNCHANGED <<now, login, issued, max_login_num>>
    /\ UNCHANGED <<turnVars, storeVars, graphVars, extVars>>

\* the clock advances; Redis drops the keys whose TTL has run out
Tick ==
    /\ now < MaxTime
    /\ now' = now + 1
    /\ detail' = [t \in TokenIds |-> IF detail[t] # 0 /\ detail[t] <= now' THEN 0 ELSE detail[t]]
    /\ IF index_exp # 0 /\ index_exp <= now'
       THEN /\ zindex' = [t \in TokenIds |-> NoScore]
            /\ index_exp' = 0
       ELSE UNCHANGED <<zindex, index_exp>>
    /\ sess_op' = NoOp("tick")
    /\ UNCHANGED <<login, issued, max_login_num, serial>>
    /\ UNCHANGED <<turnVars, storeVars, graphVars, extVars>>

SessionNext ==
    \/ \E c \in Clients : LoginToken(c)
    \/ \E c \in Clients : Login(c)
    \/ \E tok \in TokenIds : RemoveSession(tok)
    \/ Tick

\* the session gate does not depend on the chat model
SessionInit == Init /\ has_model

SessionSpec == SessionInit /\ [][SessionNext]_vars

SessionTypeOK ==
    /\ now \in 0..MaxTime
    /\ zindex \in [TokenIds -> {NoScore} \cup 0..MaxTime]
    /\ detail \in [TokenIds -> 0..(MaxTime + TtlSec)]
    /\ \A c \in Clients : login[c].pc \in {"idle", "script"}

(***************************************************************************)
(* Actions of the streaming turn                                           *)
(***************************************************************************)
Ended == pc \in {"idle", "done", "failed"}

Fail(kind) ==
    /\ pc' = "failed"
    /\ turn' = [turn EXCEPT !.error = kind]

\* a call of ChatService.stream or AgentService.stream (the agent route)
StartStream(s, u, content) ==
    /\ Ended
    /\ turn.started < MaxTurns
    /\ s = "agent" => has_model
    /\ svc' = s
    /\ req' = [user_id |-> u, conversation_id |-> 1, content |-> content,
               regenerate |-> FALSE, parent_message_id |-> Null]
    /\ pc' = "ensure_owner"
    /\ node' = "none"
    /\ step' = "enter"
    /\ gmessages' = <<>>
    /\ full_reply' = <<>>
    /\ log' = <<>>
    /\ turn' = [turn EXCEPT !.started = @ + 1, !.base = Len(messages), !.user_message = Null,
                            !.error = "none", !.call = <<>>]
    /\ UNCHANGED <<messages, convs, checkpoints>>
    /\ UNCHANGED <<sessVars, has_model, storeVars, graphVars, extVars>>

\* POST /chat/stream
StartRoute(u, content, regenerate, parent) ==
    /\ Ended
    /\ turn.started < MaxTurns
    /\ svc' = "route"
    /\ req' = [user_id |-> u, conversation_id |-> 1, content |-> content,
               regenerate |-> regenerate, parent_message_id |-> parent]
    /\ pc' = "route_ensure"
    /\ node' = "none"
    /\ step' = "enter"
    /\ gmessages' = <<>>
    /\ full_reply' = <<>>
    /\ log' = <<>>
    /\ turn' = [turn EXCEPT !.started = @ + 1, !.base = Len(messages), !.user_message = Null,
                            !.error = "none", !.call = <<>>]
    /\ UNCHANGED <<messages, convs, checkpoints>>
    /\ UNCHANGED <<sessVars, has_model, storeVars, graphVars, extVars>>

\* stream_chat: the ownership check of the route, answered with 403 on failure
RouteEnsureOwner ==
    /\ pc = "route_ensure"
    /\ IF EnsureOwner(convs, req.conversation_id, req.user_id)
       THEN pc' = "route_call" /\ UNCHANGED turn
       ELSE Fail("403")
    /\ UNCHANGED <<messages, convs, checkpoints, svc, req, node, step, gmessages, full_reply, log>>
    /\ UNCHANGED <<sessVars, has_model, storeVars, graphVars, extVars>>

\* event_generator: chat_service.stream(..., regenerate=..., parent_message_id=...) is a
\* call with keywords the function does not have
RouteCallStream ==
    /\ pc = "route_call"
    /\ Fail("TypeError")
    /\ UNCHANGED <<messages, convs, checkpoints, svc, req, node, step, gmessages, full_reply, log>>
    /\ UNCHANGED <<sessVars, has_model, storeVars, graphVars, extVars>>

\* step 1 of stream(): ensure_owner raises PermissionError
EnsureOwnerStep ==
    /\ pc = "ensure_owner"
    /\ IF EnsureOwner(convs, req.conversation_id, req.user_id)
       THEN pc' = "persist_user" /\ UNCHANGED turn
       ELSE Fail("PermissionError")
    /\ UNCHANGED <<messages, convs, checkpoints, svc, req, node, step, gmessages, full_reply, log>>
    /\ UNCHANGED <<sessVars, has_model, storeVars, graphVars, extVars>>

\* step 2 of stream(): persist_message(role="user") without parent_id
PersistUser ==
    /\ pc = "persist_user"
    /\ LET m == NewMessage(messages, req.conversation_id, "user", req.content, Null, Null)
       IN /\ messages' = Append(messages, m)
          /\ convs' = PointTo(convs, req.conversation_id, m.id)
          /\ log' = Append(log, Rec("persist_user", m.content, "", "", m.id))
          /\ turn' = [turn EXCEPT !.user_message = m.id]
    /\ pc' = "build"
    /\ UNCHANGED <<checkpoints, svc, req, node, step, gmessages, full_reply>>
    /\ db' = [db EXCEPT !.last_id = NextId(db)]
    /\ UNCHANGED <<sessVars, has_model, persist, answer, graphVars, extVars>>

\* a commit of persist_message fails
PersistFails ==
    /\ pc \in {"persist_user", "persist_assistant"}
    /\ Fail("db")
    /\ UNCHANGED <<messages, convs, checkpoints, svc, req, node, step, gmessages, full_reply, log>>
    /\ UNCHANGED <<sessVars, has_model, storeVars, graphVars, extVars>>

\* the graph step that just ran is checkpointed
Checkpointed(ms) ==
    /\ checkpoints' = Put(svc, checkpoints, req.conversation_id, ms)
    /\ log' = log \o PutLog(svc)

\* ChatService.stream with a model: build and trim the messages, start the graph on
\* the thread of the conversation
StartChatGraph ==
    /\ pc = "build" /\ svc = "chat" /\ has_model
    /\ LET input == TrimMessages(BuildMessagesWithHistory(messages, convs,
                                    req.conversation_id, req.content))
           ms    == ThreadState(svc, checkpoints, req.conversation_id) \o input
       IN gmessages' = ms /\ Checkpointed(ms)
    /\ pc' = "graph"
    /\ node' = "router"
    /\ step' = "enter"
    /\ UNCHANGED <<messages, convs, svc, req, full_reply, turn>>
    /\ UNCHANGED <<sessVars, has_model, storeVars, graphVars, extVars>>

\* ChatService.stream without a model: the echo
ChatFallback ==
    /\ pc = "build" /\ svc = "chat" /\ ~has_model
    /\ full_reply' = Append(full_reply, Fallback(req.content))
    /\ log' = Append(log, Rec("chunk", Fallback(req.content), "", "", -1))
    /\ pc' = "persist_assistant"
    /\ UNCHANGED <<messages, convs, checkpoints, svc, req, node, step, gmessages, turn>>
    /\ UNCHANGED <<sessVars, has_model, storeVars, graphVars, extVars>>

\* AgentService.stream: the graph starts from the user's message alone
StartAgentGraph ==
    /\ pc = "build" /\ svc = "agent"
    /\ gmessages' = <<GMsg("human", req.content)>>
    /\ Checkpointed(<<GMsg("human", req.content)>>)
    /\ pc' = "graph"
    /\ node' = "router"
    /\ step' = "enter"
    /\ UNCHANGED <<messages, convs, svc, req, full_reply, turn>>
    /\ UNCHANGED <<sessVars, has_model, storeVars, graphVars, extVars>>

\* what a graph step leaves alone
GraphFrame == UNCHANGED <<messages, convs, svc, req>>

\* node "router" (pass-through) and mode_router: no mode in the state, so chat mode
NodeRouter ==
    /\ pc = "graph" /\ node = "router"
    /\ node' = "rewrite"
    /\ Checkpointed(gmessages)
    /\ GraphFrame
    /\ UNCHANGED <<pc, step, gmessages, full_reply, turn>>
    /\ UNCHANGED <<sessVars, has_model, storeVars, graphVars, extVars>>

\* node "rewrite", skipped: `return state`
RewriteSkip ==
    /\ pc = "graph" /\ node = "rewrite" /\ step = "enter"
    /\ ~NeedsRewrite(gmessages)
    /\ node' = "context_retrieval"
    /\ Checkpointed(gmessages)
    /\ GraphFrame
    /\ UNCHANGED <<pc, step, gmessages, full_reply, turn>>
    /\ UNCHANGED <<sessVars, has_model, storeVars, graphVars, extVars>>

\* node "rewrite": model.ainvoke(rewrite_messages) starts
RewriteCall ==
    /\ pc = "graph" /\ node = "rewrite" /\ step = "enter"
    /\ NeedsRewrite(gmessages)
    /\ step' = "llm_open"
    /\ turn' = [turn EXCEPT !.call = <<>>]
    /\ GraphFrame
    /\ UNCHANGED <<pc, node, gmessages, full_reply, log, checkpoints>>
    /\ UNCHANGED <<sessVars, has_model, storeVars, graphVars, extVars>>

\* the first on_chat_model_stream event of a model call may carry the role and no
\* content
LlmRoleDelta ==
    /\ pc = "graph" /\ step = "llm_open"
    /\ LET ev == GraphEvent("on_chat_model_stream", node, <<>>, "")
       IN /\ log' = log \o HandleEvent(svc, ev)
          /\ full_reply' = FullReplyAfter(full_reply, ev)
    /\ step' = "llm"
    /\ GraphFrame
    /\ UNCHANGED <<pc, node, gmessages, checkpoints, turn>>
    /\ UNCHANGED <<sessVars, has_model, storeVars, graphVars, extVars>>

\* one on_chat_model_stream event with text, of the open model call of whatever node
LlmDelta(tok) ==
    /\ pc = "graph" /\ step \in {"llm_open", "llm"}
    /\ turn.deltas < MaxDeltas
    /\ LET ev == GraphEvent("on_chat_model_stream", node, tok, "")
       IN /\ log' = log \o HandleEvent(svc, ev)
          /\ full_reply' = FullReplyAfter(full_reply, ev)
    /\ step' = "llm"
    /\ turn' = [turn EXCEPT !.deltas = @ + 1, !.call = @ \o tok]
    /\ GraphFrame
    /\ UNCHANGED <<pc, node, gmessages, checkpoints>>
    /\ UNCHANGED <<sessVars, has_model, storeVars, graphVars, extVars>>

\* the open model call raises: rewrite_query catches it, chatbot_node does not and
\* neither does stream()
LlmError ==
    /\ pc = "graph" /\ step \in {"llm_open", "llm"}
    /\ IF node = "rewrite"
       THEN /\ node' = "context_retrieval"
            /\ step' = "enter"
            /\ Checkpointed(gmessages)
            /\ UNCHANGED <<pc, turn>>
       ELSE /\ Fail("model")
            /\ UNCHANGED <<node, step, log, checkpoints>>
    /\ GraphFrame
    /\ UNCHANGED <<gmessages, full_reply>>
    /\ UNCHANGED <<sessVars, has_model, storeVars, graphVars, extVars>>

\* node "rewrite": the call returned; messages[:-1] + [HumanMessage(rewritten)] goes
\* through add_messages, which appends the message that has no id yet
RewriteEnd ==
    /\ pc = "graph" /\ node = "rewrite" /\ step \in {"llm_open", "llm"}
    /\ LET rewritten == turn.call
           ms == IF rewritten # <<>> /\ rewritten # gmessages[Len(gmessages)].content
                 THEN Append(gmessages, GMsg("human", rewritten))
                 ELSE gmessages
       IN gmessages' = ms /\ Checkpointed(ms)
    /\ node' = "context_retrieval"
    /\ step' = "enter"
    /\ GraphFrame
    /\ UNCHANGED <<pc, full_reply, turn>>
    /\ UNCHANGED <<sessVars, has_model, storeVars, graphVars, extVars>>

\* node "context_retrieval": fills history_context and kb_context, no model call
NodeContext ==
    /\ pc = "graph" /\ node = "context_retrieval"
    /\ node' = "chatbot"
    /\ Checkpointed(gmessages)
    /\ GraphFrame
    /\ UNCHANGED <<pc, step, gmessages, full_reply, turn>>
    /\ UNCHANGED <<sessVars, has_model, storeVars, graphVars, extVars>>

\* node "chatbot": model.ainvoke(messages) starts
ChatbotCall ==
    /\ pc = "graph" /\ node = "chatbot" /\ step = "enter"
    /\ step' = "llm_open"
    /\ turn' = [turn EXCEPT !.call = <<>>]
    /\ GraphFrame
    /\ UNCHANGED <<pc, node, gmessages, full_reply, log, checkpoints>>
    /\ UNCHANGED <<sessVars, has_model, storeVars, graphVars, extVars>>

\* node "chatbot": the call returned an AIMessage; the edge after it is END when the
\* graph has no tools and tools_condition when it has
ChatbotEnd(tool_calls) ==
    /\ pc = "graph" /\ node = "chatbot" /\ step \in {"llm_open", "llm"}
    /\ tool_calls => HasTools(svc) /\ turn.tool_rounds < MaxToolRounds
    /\ LET ms == Append(gmessages, AIMessage(turn.call, tool_calls))
       IN /\ gmessages' = ms
          /\ Checkpointed(ms)
          /\ IF HasTools(svc) /\ tools_condition(ms) = "tools"
             THEN node' = "tools" /\ pc' = pc
             ELSE node' = "end" /\ pc' = "persist_assistant"
    /\ step' = "enter"
    /\ GraphFrame
    /\ UNCHANGED <<full_reply, turn>>
    /\ UNCHANGED <<sessVars, has_model, storeVars, graphVars, extVars>>

\* node "tools" whose on_tool_start is not forwarded
ToolStart_Silent ==
    /\ pc = "graph" /\ node = "tools" /\ step = "enter"
    /\ log' = log
    /\ step' = "tool"
    /\ GraphFrame
    /\ UNCHANGED <<pc, node, gmessages, full_reply, turn, checkpoints>>
    /\ UNCHANGED <<sessVars, has_model, storeVars, graphVars, extVars>>

\* node "tools": on_tool_start of the tool the model asked for
ToolStart ==
    /\ pc = "graph" /\ node = "tools" /\ step = "enter"
    /\ log' = log \o HandleEvent(svc, GraphEvent("on_tool_start", node, <<>>, "tool"))
    /\ step' = "tool"
    /\ GraphFrame
    /\ UNCHANGED <<pc, node, gmessages, full_reply, turn, checkpoints>>
    /\ UNCHANGED <<sessVars, has_model, storeVars, graphVars, extVars>>

\* node "tools": on_tool_end, the ToolMessage joins the state, back to "chatbot"
ToolEnd ==
    /\ pc = "graph" /\ node = "tools" /\ step = "tool"
    /\ LET ms == Append(gmessages, GMsg("tool", <<"t">>))
       IN /\ gmessages' = ms
          /\ checkpoints' = Put(svc, checkpoints, req.conversation_id, ms)
    /\ log' = log \o HandleEvent(svc, GraphEvent("on_tool_end", node, <<>>, "tool"))
               \o PutLog(svc)
    /\ node' = "chatbot"
    /\ step' = "enter"
    /\ turn' = [turn EXCEPT !.tool_rounds = @ + 1]
    /\ GraphFrame
    /\ UNCHANGED <<pc, full_reply>>
    /\ UNCHANGED <<sessVars, has_model, storeVars, graphVars, extVars>>

\* after the stream: persist_message(role="assistant", content=reply_text), without
\* parent_id and without checkpoint_id
PersistAssistant ==
    /\ pc = "persist_assistant"
    /\ LET m == NewMessage(messages, req.conversation_id, "assistant",
                           ReplyText(svc, full_reply), Null, Null)
       IN /\ messages' = Append(messages, m)
          /\ convs' = PointTo(convs, req.conversation_id, m.id)
          /\ log' = Append(log, Rec("persist_assistant", m.content, "", "", m.id))
    /\ pc' = "emit_done"
    /\ UNCHANGED <<checkpoints, svc, req, node, step, gmessages, full_reply, turn>>
    /\ db' = [db EXCEPT !.last_id = NextId(db)]
    /\ UNCHANGED <<sessVars, has_model, persist, answer, graphVars, extVars>>

\* the last yield of stream(): the done record with the id of the assistant message
EmitDone ==
    /\ pc = "emit_done"
    /\ log' = Append(log, Rec("done", <<>>, "", "", messages[Len(messages)].id))
    /\ pc' = "done"
    /\ UNCHANGED <<messages, convs, checkpoints, svc, req, node, step, gmessages,
                   full_reply, turn>>
    /\ UNCHANGED <<sessVars, has_model, storeVars, graphVars, extVars>>

TurnNext ==
    \/ \E s \in {"chat", "agent"}, u \in Users, content \in Contents :
           StartStream(s, u, content)
    \/ \E u \in Users, content \in Contents, regenerate \in BOOLEAN :
           StartRoute(u, content, regenerate, IF regenerate THEN turn.user_message ELSE Null)
    \/ RouteEnsureOwner
    \/ RouteCallStream
    \/ EnsureOwnerStep
    \/ PersistUser
    \/ PersistFails
    \/ StartChatGraph
    \/ ChatFallback
    \/ StartAgentGraph
    \/ NodeRouter
    \/ RewriteSkip
    \/ RewriteCall
    \/ LlmRoleDelta
    \/ LlmDelta(Delta(turn.deltas + 1))
    \/ LlmError
    \/ RewriteEnd
    \/ NodeContext
    \/ ChatbotCall
    \/ \E tool_calls \in BOOLEAN : ChatbotEnd(tool_calls)
    \/ ToolStart
    \/ ToolEnd
    \/ PersistAssistant
    \/ EmitDone

\* a turn does not depend on the login limit of the user
TurnInit == Init /\ max_login_num = DefaultMaxLoginNum

TurnSpec ==
    TurnInit /\ [][TurnNext]_vars

\* the records of the turn that went to the client, in order
Events == SelectSeq(log, LAMBDA r : r.type \in EventTypes)

TurnTypeOK ==
    /\ svc \in {"none", "chat", "agent", "route"}
    /\ pc \in {"idle", "route_ensure", "route_call", "ensure_owner", "persist_user", "build",
               "graph", "persist_assistant", "emit_done", "done", "failed"}
    /\ node \in GraphNodes \cup {"none", "end"}
    /\ step \in {"enter", "llm_open", "llm", "tool"}
    /\ turn.started \in 0..MaxTurns
    /\ turn.deltas \in 0..MaxDeltas
    /\ turn.tool_rounds \in 0..MaxToolRounds
    /\ \A i \in 1..Len(messages) : messages[i].id = i

(***************************************************************************)
(* Part III - the conversation store on its own: ConversationService as    *)
(* the routes of conversation.py and branch.py and any other caller use    *)
(* it, with persist_message in its two commits                             *)
(***************************************************************************)
\* the rows as a set
Rows(msgs) == {msgs[i] : i \in 1..Len(msgs)}

\* sequences that list every element of the set once
Orders(S) ==
    {q \in [1..Cardinality(S) -> S] : \A i, j \in 1..Cardinality(S) : q[i] = q[j] => i = j}

\* answers `ORDER BY create_time ASC` allows for the rows with the given parent_id:
\* rows of equal create_time come in any order
SiblingOrders(msgs, parent_id) ==
    {q \in Orders({m \in Rows(msgs) : m.parent_id = parent_id}) :
        \A i, j \in 1..Len(q) : i < j => q[i].create_time <= q[j].create_time}

\* siblings.index(str(message_id)), 0 on ValueError
IndexOf(ids, id) ==
    IF \E i \in 1..Len(ids) : ids[i] = id
    THEN (CHOOSE i \in 1..Len(ids) : ids[i] = id) - 1
    ELSE 0

\* get_sibling_messages: every answer the call can give
GetSiblingResults(msgs, message_id) ==
    LET found == {m \in Rows(msgs) : m.id = message_id}
        cur   == CHOOSE m \in found : TRUE
    IN IF found = {} \/ cur.parent_id = Null
       THEN {[current |-> 0, total |-> 1, siblings |-> <<message_id>>]}
       ELSE {[current  |-> IndexOf([i \in 1..Len(q) |-> q[i].id], message_id),
              total    |-> Len(q),
              siblings |-> [i \in 1..Len(q) |-> q[i].id]] :
                q \in SiblingOrders(msgs, cur.parent_id)}

\* persist_message, up to its first commit: the row is inserted
PersistInsert(c, parent_id) ==
    /\ persist.pc = "idle"
    /\ answer' = NoAnswer
    /\ UNCHANGED convs
    /\ db.last_id < MaxRows
    /\ c \in DOMAIN convs
    /\ LET m == NewMessage(messages, c, "user", <<>>, parent_id, Null)
       IN /\ messages' = Append(messages, m)
          /\ persist' = [pc |-> "inserted", id |-> m.id, conversation_id |-> c]
    /\ db' = [db EXCEPT !.last_id = NextId(db)]
    /\ UNCHANGED <<checkpoints, svc, pc, req, node, step, gmessages, full_reply, log,
                   has_model, turn>>
    /\ UNCHANGED <<sessVars, graphVars, extVars>>

\* persist_message, its second commit: the UPDATE of the conversation, and the return
PersistUpdate ==
    /\ persist.pc = "inserted"
    /\ convs' = IF persist.conversation_id \in DOMAIN convs
                THEN PointTo(convs, persist.conversation_id, persist.id)
                ELSE convs
    /\ answer' = [op |-> "persist_message", conversation_id |-> persist.conversation_id,
                  id |-> persist.id, result |-> <<>>]
    /\ persist' = NoPersist
    /\ UNCHANGED <<messages, db>>
    /\ UNCHANGED <<checkpoints, svc, pc, req, node, step, gmessages, full_reply, log,
                   has_model, turn>>
    /\ UNCHANGED <<sessVars, graphVars, extVars>>

\* persist_message fails after its first commit (the connection is lost, the process
\* dies): the UPDATE never runs
PersistInterrupted ==
    /\ persist.pc = "inserted"
    /\ answer' = [op |-> "persist_message_failed", conversation_id |-> persist.conversation_id,
                  id |-> persist.id, result |-> <<>>]
    /\ persist' = NoPersist
    /\ UNCHANGED <<messages, convs, db>>
    /\ UNCHANGED <<checkpoints, svc, pc, req, node, step, gmessages, full_reply, log,
                   has_model, turn>>
    /\ UNCHANGED <<sessVars, graphVars, extVars>>

\* PUT /branch/{conversation_id}/current: ensure_owner, then set_current_message with
\* whatever messageId the request carries
SetCurrentMessage(c, message_id) ==
    /\ c \in DOMAIN convs
    /\ convs' = [convs EXCEPT ![c].current_message_id = message_id]
    /\ answer' = NoAnswer
    /\ UNCHANGED <<messages, db, persist>>
    /\ UNCHANGED <<checkpoints, svc, pc, req, node, step, gmessages, full_reply, log,
                   has_model, turn>>
    /\ UNCHANGED <<sessVars, graphVars, extVars>>

\* delete_conversation: the messages of the conversation and the conversation, in one
\* commit
DeleteConversation(c) ==
    /\ c \in DOMAIN convs
    /\ messages' = SelectSeq(messages, LAMBDA m : m.conversation_id # c)
    /\ convs' = [d \in DOMAIN convs \ {c} |-> convs[d]]
    /\ answer' = NoAnswer
    /\ UNCHANGED <<db, persist>>
    /\ UNCHANGED <<checkpoints, svc, pc, req, node, step, gmessages, full_reply, log,
                   has_model, turn>>
    /\ UNCHANGED <<sessVars, graphVars, extVars>>

\* GET /branch/{conversation_id}/siblings: get_sibling_messages(message_id)
AskSiblings(message_id) ==
    /\ \E r \in GetSiblingResults(messages, message_id) :
          answer' = [op |-> "get_sibling_messages", conversation_id |-> Null,
                     id |-> message_id, result |-> r]
    /\ UNCHANGED <<messages, convs, db, persist>>
    /\ UNCHANGED <<checkpoints, svc, pc, req, node, step, gmessages, full_reply, log,
                   has_model, turn>>
    /\ UNCHANGED <<sessVars, graphVars, extVars>>

\* history(user_id, conversation_id) by the owner: the ids of the rows it returns
AskHistory(c) ==
    /\ c \in DOMAIN convs
    /\ LET h == History(messages, convs, c)
       IN answer' = [op |-> "history", conversation_id |-> c, id |-> Null,
                     result |-> [i \in 1..Len(h) |-> h[i].id]]
    /\ UNCHANGED <<messages, convs, db, persist>>
    /\ UNCHANGED <<checkpoints, svc, pc, req, node, step, gmessages, full_reply, log,
                   has_model, turn>>
    /\ UNCHANGED <<sessVars, graphVars, extVars>>

\* the clock of the database advances (it matters only between two inserts, and
\* at most once between them)
DbTick ==
    /\ db.time < db.last_id
    /\ db' = [db EXCEPT !.time = @ + 1]
    /\ answer' = NoAnswer
    /\ UNCHANGED <<messages, convs, persist>>
    /\ UNCHANGED <<checkpoints, svc, pc, req, node, step, gmessages, full_reply, log,
                   has_model, turn>>
    /\ UNCHANGED <<sessVars, graphVars, extVars>>

StoreNext ==
    \/ \E c \in ConvIds :
           \E parent_id \in {Null} \cup {m.id : m \in Rows(messages)} :
               PersistInsert(c, parent_id)
    \/ PersistUpdate
    \/ PersistInterrupted
    \/ \E c \in ConvIds, message_id \in 1..MaxRows : SetCurrentMessage(c, message_id)
    \/ \E c \in ConvIds : DeleteConversation(c)
    \/ \E message_id \in 1..MaxRows : AskSiblings(message_id)
    \/ \E c \in ConvIds : AskHistory(c)
    \/ DbTick

\* the store does not depend on the login limit or on the chat model
StoreInit == Init /\ max_login_num = DefaultMaxLoginNum /\ has_model

StoreSpec == StoreInit /\ [][StoreNext]_vars

StoreTypeOK ==
    /\ db.time \in 0..db.last_id
    /\ db.last_id \in 0..MaxRows
    /\ persist.pc \in {"idle", "inserted"}
    /\ \A m \in Rows(messages) : m.id \in 1..db.last_id
    /\ \A i, j \in 1..Len(messages) : i < j => messages[i].id < messages[j].id

(***************************************************************************)
(* Part IV - one invocation of the graph of create_agent_graph on its own, *)
(* both sub-graphs, a node per step                                        *)
(***************************************************************************)
\* values of state.mode an invocation is given
Modes == {"chat", "deep_search"}

\* values of settings.deep_search_max_rounds (an int without a lower limit)
MaxRoundsValues == 0..MaxRounds

\* mode_router sending every mode to the chat sub-graph
mode_router_ChatOnly(mode) == "rewrite"

\* mode_router
mode_router(mode) == IF mode = "deep_search" THEN "kb_precheck" ELSE "rewrite"

\* planning_router with `>` for `>=`
planning_router_OneMore(planning_rounds, search_queries, max_rounds) ==
    IF planning_rounds > max_rounds THEN "summary"
    ELSE IF search_queries THEN "search"
    ELSE "summary"

\* planning_router; search_queries stands for `the list is not empty`
planning_router(planning_rounds, search_queries, max_rounds) ==
    IF planning_rounds >= max_rounds THEN "summary"
    ELSE IF search_queries THEN "search"
    ELSE "summary"

\* the node ran: it joins the executed sequence
Ran(r, name) == [r EXCEPT !.trace = Append(@, name)]

\* an LLM call of the node raised (the first one of the invocation is remembered)
Raised(r, name) == [r EXCEPT !.llm_error = IF @ = "none" THEN name ELSE @]

\* the recursion_limit of the executor: no caller sets one in the config of an
\* invocation, so it is the default of LangGraph
RecursionLimit == 25

\* the executor at the recursion limit waiting for a next step that never comes
NextStep_Stuck(r, next) ==
    IF Len(r.trace) >= RecursionLimit THEN [r EXCEPT !.node = "none"]
    ELSE [r EXCEPT !.node = next]

\* the edge to the next node: the executor runs at most recursion_limit steps and
\* raises GraphRecursionError when the graph has not reached END by then
NextStep(r, next) ==
    IF Len(r.trace) >= RecursionLimit THEN [r EXCEPT !.status = "error", !.node = "none"]
    ELSE [r EXCEPT !.node = next]

\* an invocation touches neither the session gate, nor a turn, nor the store
RunFrame == UNCHANGED <<sessVars, turnVars, storeVars, extVars>>

\* graph.ainvoke({"messages": [...], "mode": mode}) on a fresh state
GraphInvoke(mode, tools, max_rounds) ==
    /\ run.status = "idle"
    /\ run' = [NoRun EXCEPT !.status = "running", !.mode = mode, !.tools = tools,
                            !.max_rounds = max_rounds, !.node = "router"]
    /\ RunFrame

\* node "router", then the conditional edge mode_router
RunRouter ==
    /\ run.status = "running" /\ run.node = "router"
    /\ run' = [Ran(run, "router") EXCEPT !.node = mode_router(run.mode)]
    /\ RunFrame

\* node "rewrite": it skips, rewrites, or catches the error of its model call; then
\* the edge to context_retrieval
RunRewrite(outcome) ==
    /\ run.status = "running" /\ run.node = "rewrite"
    /\ LET r == IF outcome = "error" THEN Raised(run, "rewrite") ELSE run
       IN run' = [Ran(r, "rewrite") EXCEPT !.node = "context_retrieval"]
    /\ RunFrame

\* node "context_retrieval", then the edge to chatbot
RunContext ==
    /\ run.status = "running" /\ run.node = "context_retrieval"
    /\ run' = [Ran(run, "context_retrieval") EXCEPT !.node = "chatbot"]
    /\ RunFrame

\* node "chatbot": the model answers, asks for tools (as often as it likes), or raises
\* (nothing catches it); then END, or tools_condition when the graph has tools
RunChatbot(outcome) ==
    /\ run.status = "running" /\ run.node = "chatbot"
    /\ outcome = "tool_calls" => run.tools
    /\ run' = IF outcome = "error"
              THEN [Raised(Ran(run, "chatbot"), "chatbot") EXCEPT !.status = "error",
                                                                  !.node = "none"]
              ELSE IF outcome = "tool_calls"
              THEN NextStep(Ran(run, "chatbot"), "tools")
              ELSE [Ran(run, "chatbot") EXCEPT !.status = "end", !.node = "none"]
    /\ RunFrame

\* node "tools", then the edge back to chatbot
RunTools ==
    /\ run.status = "running" /\ run.node = "tools"
    /\ run' = NextStep([Ran(run, "tools") EXCEPT !.tool_rounds = @ + 1], "chatbot")
    /\ RunFrame

\* node "kb_precheck" (its errors are caught), then the edge to planning
RunKbPrecheck ==
    /\ run.status = "running" /\ run.node = "kb_precheck"
    /\ run' = [Ran(run, "kb_precheck") EXCEPT !.node = "planning"]
    /\ RunFrame

\* node "planning": the model gives queries, says no search is needed, or raises (the
\* node catches it and returns no queries); planning_rounds + 1 in all three cases;
\* then the conditional edge planning_router
RunPlanning(outcome) ==
    /\ run.status = "running" /\ run.node = "planning"
    /\ LET r      == IF outcome = "error" THEN Raised(run, "planning") ELSE run
           rounds == run.planning_rounds + 1
           asks   == outcome = "queries"
       IN run' = [Ran(r, "planning") EXCEPT
                     !.planning_rounds = rounds,
                     !.search_queries = asks,
                     !.planner_always_asks = @ /\ asks,
                     !.node = planning_router(rounds, asks, run.max_rounds)]
    /\ RunFrame

\* node "search": search_queries is emptied, or left as it is when no Tavily key is
\* configured; then the edge back to planning
RunSearch(has_key) ==
    /\ run.status = "running" /\ run.node = "search"
    /\ run' = [Ran(run, "search") EXCEPT
                  !.search_queries = IF has_key THEN FALSE ELSE @,
                  !.node = "planning"]
    /\ RunFrame

\* node "summary": the model answers or raises (the node catches it and answers with
\* an apology); then END
RunSummary(outcome) ==
    /\ run.status = "running" /\ run.node = "summary"
    /\ LET r == IF outcome = "error" THEN Raised(run, "summary") ELSE run
       IN run' = [Ran(r, "summary") EXCEPT !.status = "end", !.node = "none",
                                            !.search_queries = FALSE]
    /\ RunFrame

GraphNext ==
    \/ \E mode \in Modes, tools \in BOOLEAN, max_rounds \in MaxRoundsValues :
           GraphInvoke(mode, tools, max_rounds)
    \/ RunRouter
    \/ \E outcome \in {"skip", "rewritten", "error"} : RunRewrite(outcome)
    \/ RunContext
    \/ \E outcome \in {"answer", "tool_calls", "error"} : RunChatbot(outcome)
    \/ RunTools
    \/ RunKbPrecheck
    \/ \E outcome \in {"queries", "none", "error"} : RunPlanning(outcome)
    \/ \E has_key \in BOOLEAN : RunSearch(has_key)
    \/ \E outcome \in {"answer", "error"} : RunSummary(outcome)

\* an invocation does not depend on the login limit or on the chat model
GraphInit == Init /\ max_login_num = DefaultMaxLoginNum /\ has_model

GraphSpec == GraphInit /\ [][GraphNext]_vars

\* the executor runs the next node of an invocation as long as there is one
GraphFairSpec == GraphSpec /\ WF_vars(GraphNext)

\* how often the node ran
Runs(name) == Cardinality({i \in 1..Len(run.trace) : run.trace[i] = name})

GraphTypeOK ==
    /\ run.status \in {"idle", "running", "end", "error"}
    /\ run.node \in {"none", "router", "rewrite", "context_retrieval", "chatbot", "tools",
                     "kb_precheck", "planning", "search", "summary"}
    /\ run.planning_rounds = Runs("planning")
    /\ run.tool_rounds = Runs("tools")
    /\ Len(run.trace) <= RecursionLimit

(***************************************************************************)
(* Part V - get_current_user in front of a Redis that may be unreachable   *)
(***************************************************************************)
\* get_current_user and the exception handlers of main.py: the JWT is decoded first
\* (401); redis.get raises when Redis is unreachable, nothing catches it before
\* global_exception_handler, which answers 500; a missing session is 401
get_current_user(det, tok, t, reachable) ==
    IF ~decode_token(tok, t) THEN 401
    ELSE IF ~reachable THEN 500
    ELSE IF ~load_session(det, tok) THEN 401
    ELSE 200

\* a request that carries the token arrives at a route that depends on
\* get_current_user
AuthRequest(tok, reachable) ==
    /\ auth' = [token |-> tok, reachable |-> reachable,
                status |-> get_current_user(detail, tok, now, reachable)]
    /\ UNCHANGED <<sessVars, turnVars, storeVars, graphVars>>
    /\ UNCHANGED <<threadVars, ragVars, bridgeVars, unitVars>>

AuthNext ==
    \/ \E c \in Clients : LoginToken(c)
    \/ \E c \in Clients : Login(c)
    \/ \E tok \in TokenIds : RemoveSession(tok)
    \/ Tick
    \/ \E tok \in TokenIds, reachable \in BOOLEAN : AuthRequest(tok, reachable)

AuthSpec == SessionInit /\ [][AuthNext]_vars

AuthTypeOK == auth.status \in {0, 200, 401, 500}

(***************************************************************************)
(* Part VI - the checkpoint thread of a conversation: concurrent           *)
(* invocations of the checkpointed graph, CheckpointService's sibling      *)
(* query, and delete_conversation                                          *)
(***************************************************************************)
\* the thread of the conversation: thread_id = str(conversation_id)
Thread == 1

\* _collect_history: messageCount and parentId of a checkpoint
MessageCount(cps, id) == Len(cps[id].messages)

ParentId(cps, id) == cps[id].parent

\* the walk up from the checkpoint to the anchor: the first checkpoint on the way
\* whose messageCount is below current_count; Null when the root is reached first
RECURSIVE Anchor(_, _, _, _)
Anchor(cps, history, cursor_id, current_count) ==
    IF cursor_id = Null \/ cursor_id \notin history THEN Null
    ELSE IF MessageCount(cps, cursor_id) < current_count THEN cursor_id
    ELSE IF ParentId(cps, cursor_id) = Null THEN Null
    ELSE Anchor(cps, history, ParentId(cps, cursor_id), current_count)

\* is_descendant
RECURSIVE IsDescendant(_, _, _, _)
IsDescendant(cps, history, target_id, ancestor_id) ==
    IF target_id = ancestor_id THEN TRUE
    ELSE IF target_id \notin history \/ ParentId(cps, target_id) = Null THEN FALSE
    ELSE IsDescendant(cps, history, ParentId(cps, target_id), ancestor_id)

\* get_sibling_checkpoints: the leaves among the descendants of the anchor whose
\* messageCount is above the anchor's, and the checkpoint itself (the walks of the
\* code stop after 100 steps, more than a thread of this size has)
GetSiblingCheckpoints(cps, thread_id, checkpoint_id) ==
    LET history == ThreadCheckpoints(cps, thread_id)
    IN IF checkpoint_id \notin history THEN {checkpoint_id}
       ELSE LET current_count == MessageCount(cps, checkpoint_id)
                anchor_id == Anchor(cps, history, checkpoint_id, current_count)
            IN IF anchor_id = Null THEN {checkpoint_id}
               ELSE LET candidates ==
                            {h \in history :
                                /\ MessageCount(cps, h) > MessageCount(cps, anchor_id)
                                /\ IsDescendant(cps, history, h, anchor_id)}
                        real_siblings ==
                            {c \in candidates :
                                ~\E child \in candidates \ {c} : ParentId(cps, child) = c}
                    IN real_siblings \cup {checkpoint_id}

ThreadFrame ==
    /\ UNCHANGED <<messages, convs, svc, pc, req, node, step, gmessages, full_reply, log,
                   has_model, turn>>
    /\ UNCHANGED <<sessVars, storeVars, graphVars, authVars, ragVars, bridgeVars, unitVars>>

\* ChatService.stream starts the graph on the thread: the invocation starts from the
\* latest checkpoint of the thread, adds its input and puts a checkpoint whose
\* parent is the one it started from
CpInvoke(i) ==
    /\ inv[i].pc = "idle"
    /\ Len(checkpoints) < MaxCheckpoints
    /\ EnsureOwner(convs, Thread, 1)
    /\ LET base == LatestCheckpoint(checkpoints, Thread)
           ms   == (IF base = Null THEN <<>> ELSE checkpoints[base].messages)
                       \o <<GMsg("human", <<"q">>)>>
       IN /\ checkpoints' = Append(checkpoints,
                                   [thread_id |-> Thread, parent |-> base, messages |-> ms])
          /\ inv' = [inv EXCEPT ![i] = [pc |-> "running", cursor |-> Len(checkpoints) + 1,
                                        messages |-> ms]]
    /\ cp_answer' = NoCpAnswer
    /\ ThreadFrame

\* a step of the invocation ends: a checkpoint is put whose parent is the last one
\* of this invocation; the chatbot step adds the answer and is the last one
CpStep(i, chatbot) ==
    /\ inv[i].pc = "running"
    /\ Len(checkpoints) < MaxCheckpoints
    /\ LET ms == IF chatbot THEN Append(inv[i].messages, AIMessage(<<"a">>, FALSE))
                 ELSE inv[i].messages
       IN /\ checkpoints' = Append(checkpoints, [thread_id |-> Thread,
                                                 parent |-> inv[i].cursor, messages |-> ms])
          /\ inv' = [inv EXCEPT ![i] = IF chatbot THEN IdleInv
                                       ELSE [pc |-> "running",
                                             cursor |-> Len(checkpoints) + 1,
                                             messages |-> ms]]
    /\ cp_answer' = NoCpAnswer
    /\ ThreadFrame

\* GET /checkpoint/{conversation_id}/{checkpoint_id}/siblings
AskSiblingCheckpoints(checkpoint_id) ==
    /\ checkpoint_id \in ThreadCheckpoints(checkpoints, Thread)
    /\ cp_answer' = [checkpoint_id |-> checkpoint_id,
                     siblings |-> GetSiblingCheckpoints(checkpoints, Thread, checkpoint_id)]
    /\ UNCHANGED <<checkpoints, inv>>
    /\ ThreadFrame

ThreadNext ==
    \/ \E i \in Invokers : CpInvoke(i)
    \/ \E i \in Invokers, chatbot \in BOOLEAN : CpStep(i, chatbot)
    \/ \E checkpoint_id \in 1..MaxCheckpoints : AskSiblingCheckpoints(checkpoint_id)
    \/ DeleteConversation(Thread)

ThreadInit == Init /\ max_login_num = DefaultMaxLoginNum /\ has_model

ThreadSpec == ThreadInit /\ [][ThreadNext]_vars

ThreadTypeOK ==
    /\ Len(checkpoints) <= MaxCheckpoints
    /\ \A id \in ThreadCheckpoints(checkpoints, Thread) :
          ParentId(checkpoints, id) \in {Null} \cup 1..(id - 1)
    /\ cp_answer.checkpoint_id # Null => cp_answer.checkpoint_id \in cp_answer.siblings

(***************************************************************************)
(* Part VII - turns on a conversation that already had chat turns: the     *)
(* thread of the conversation holds the checkpoints of those turns         *)
(***************************************************************************)
\* the tables and the checkpoint store of a new deployment
NoPast ==
    [messages |-> <<>>,
     convs |-> [c \in ConvIds |-> [user_id |-> 1, last_message_id |-> Null,
                                   current_message_id |-> Null]],
     checkpoints |-> <<>>,
     last_id |-> 0]

\* the row persist_message inserts, with the id generate_id() gives next
PastRow(st, role, content) ==
    [id |-> st.last_id + 1, conversation_id |-> 1, role |-> role, content |-> content,
     parent_id |-> Null, checkpoint_id |-> Null, create_time |-> 0]

\* what one complete turn of ChatService.stream by the owner leaves: the user row,
\* the checkpoints of the graph steps (start, router, rewrite, context_retrieval with
\* the state as it began, chatbot with the answer added), the assistant row
PastTurn(st, content, reply) ==
    LET u     == PastRow(st, "user", content)
        msgs1 == Append(st.messages, u)
        cs1   == PointTo(st.convs, 1, u.id)
        input == TrimMessages(BuildMessagesWithHistory(msgs1, cs1, 1, content))
        ms    == ThreadState("chat", st.checkpoints, 1) \o input
        cps1  == Put("chat", Put("chat", Put("chat", Put("chat", st.checkpoints, 1, ms),
                                                     1, ms), 1, ms), 1, ms)
        ms2   == Append(ms, AIMessage(reply, FALSE))
        a     == PastRow([st EXCEPT !.last_id = u.id], "assistant", reply)
    IN [messages |-> Append(msgs1, a),
        convs |-> PointTo(cs1, 1, a.id),
        checkpoints |-> Put("chat", cps1, 1, ms2),
        last_id |-> a.id]

\* k complete chat turns, each asking <<"q">> and answered with one delta
RECURSIVE PastTurns(_)
PastTurns(k) ==
    IF k = 0 THEN NoPast ELSE PastTurn(PastTurns(k - 1), <<"q">>, Delta(1))

\* the conversation had up to MaxPastTurns chat turns, answered by the model of
\* the deployment (every past reply is written Delta(1)); a deployment without
\* a model had none
LongThreadInit ==
    /\ now = 0
    /\ zindex = [t \in TokenIds |-> NoScore]
    /\ index_exp = 0
    /\ detail = [t \in TokenIds |-> 0]
    /\ login = [c \in Clients |-> IdleLogin]
    /\ issued = <<>>
    /\ max_login_num = DefaultMaxLoginNum
    /\ sess_op = NoOp("none")
    /\ serial = TRUE
    /\ has_model \in BOOLEAN
    /\ \E k \in 0..(IF has_model THEN MaxPastTurns ELSE 0) :
          /\ messages = PastTurns(k).messages
          /\ convs = PastTurns(k).convs
          /\ checkpoints = PastTurns(k).checkpoints
          /\ db = [time |-> 0, last_id |-> PastTurns(k).last_id]
    /\ svc = "none"
    /\ pc = "idle"
    /\ req = NoReq
    /\ node = "none"
    /\ step = "enter"
    /\ gmessages = <<>>
    /\ full_reply = <<>>
    /\ log = <<>>
    /\ persist = NoPersist
    /\ answer = NoAnswer
    /\ run = NoRun
    /\ auth = NoAuth
    /\ inv = [i \in Invokers |-> IdleInv]
    /\ cp_answer = NoCpAnswer
    /\ rag = NoRag
    /\ bridge = NoBridge
    /\ snow = NoSnow
    /\ cb = NoCb
    /\ deep = NoDeep
    /\ turn = NoTurn

LongThreadSpec == LongThreadInit /\ [][TurnNext]_vars

(***************************************************************************)
(* Part VIII - hybrid search over a knowledge base whose documents are     *)
(* added and deleted while searches run                                    *)
(***************************************************************************)
\* similarity_threshold, in the units of NoQuery.sim
Threshold == 1

\* the values of top_k a caller passes
TopKs == {1, 3}

\* the two merge modes of hybrid_search_knowledge_base
RagModes == {"union", "intersection"}

\* k = 60, the constant of Reciprocal Rank Fusion
RrfK == 60

\* 1 / (k + rank + 1) for rank 0, 1, 2 as an integer multiple of 1 / RrfScale
RrfScale == 61 * 62 * 63

\* the queries: no two chunks have the same similarity or the same BM25 score
Queries ==
    {q \in [sim : [ChunkKeys -> 0..2], bm : [ChunkKeys -> 0..2]] :
        \A c, d \in ChunkKeys : c # d => q.sim[c] # q.sim[d] /\ q.bm[c] # q.bm[d]}

\* s[:n]
Take(s, n) == SubSeq(s, 1, IF Len(s) < n THEN Len(s) ELSE n)

\* the elements of a list
Keys(s) == {s[i] : i \in 1..Len(s)}

\* sorted(s, key=score, reverse=True): descending, equal keys keep their order
RECURSIVE SortedDesc(_, _)
SortedDesc(s, score) ==
    IF s = <<>> THEN <<>>
    ELSE LET front == SortedDesc(SubSeq(s, 1, Len(s) - 1), score)
             x == s[Len(s)]
             n == Cardinality({i \in 1..Len(front) : score[front[i]] >= score[x]})
         IN  SubSeq(front, 1, n) \o <<x>> \o SubSeq(front, n + 1, Len(front))

\* search_knowledge_base: the top_k rows by similarity, then those at or above
\* the threshold
search_knowledge_base(rows, query, top_k, similarity_threshold) ==
    LET Passes(c) == query.sim[c] >= similarity_threshold
    IN  SelectSeq(Take(SortedDesc(rows, query.sim), top_k), Passes)

\* step 3 of hybrid_search_knowledge_base: the top_k * 2 of ALL chunks by BM25
\* score, whatever the score is
bm25_top(all_chunks, query, top_k) == Take(SortedDesc(all_chunks, query.bm), top_k * 2)

\* 1 / (k + rank + 1) of a key in a ranked list, 0 when the list lacks it
RrfTerm(ranked, key) ==
    IF key \in Keys(ranked)
    THEN RrfScale \div (RrfK + (CHOOSE i \in 1..Len(ranked) : ranked[i] = key))
    ELSE 0

\* rrf_scores, its keys in insertion order: the vector results, then the BM25
\* results that are new
rrf_keys(vector_results, bm25_results) ==
    LET IsNew(key) == key \notin Keys(vector_results)
    IN  vector_results \o SelectSeq(bm25_results, IsNew)

\* step 4 of hybrid_search_knowledge_base: fusion, the filter of the mode, the
\* sort and the cut
rrf_fuse(vector_results, bm25_results, top_k, mode) ==
    LET keys == rrf_keys(vector_results, bm25_results)
        rrf_scores == [key \in Keys(keys) |->
                          RrfTerm(vector_results, key) + RrfTerm(bm25_results, key)]
        Valid(key) == key \in Keys(vector_results) \cap Keys(bm25_results)
        kept == IF mode = "intersection" THEN SelectSeq(keys, Valid) ELSE keys
    IN  Take(SortedDesc(kept, rrf_scores), top_k)

RagFrame ==
    UNCHANGED <<sessVars, turnVars, storeVars, graphVars, authVars, threadVars, bridgeVars,
                unitVars>>

\* KnowledgeService.create_chunks commits the chunk of a processed document
CreateChunks(c) ==
    /\ c \notin rag.chunks
    /\ rag' = [rag EXCEPT !.chunks = @ \cup {c}]
    /\ RagFrame

\* KnowledgeService.delete_document commits the deletion of a document's chunks
DeleteDocument(c) ==
    /\ c \in rag.chunks
    /\ rag' = [rag EXCEPT !.chunks = @ \ {c}]
    /\ RagFrame

\* hybrid_search_knowledge_base up to its first statement: the vector search
\* with top_k * 2
HybridSearchVector(query, top_k, mode) ==
    /\ rag.pc = "idle"
    /\ \E rows \in Orders(rag.chunks) :
          rag' = [rag EXCEPT !.pc = "vector", !.query = query, !.top_k = top_k,
                             !.mode = mode,
                             !.vector_results =
                                 search_knowledge_base(rows, query, top_k * 2, Threshold),
                             !.bm25_results = <<>>, !.result = <<>>]
    /\ RagFrame

\* the rest of hybrid_search_knowledge_base: the second statement reads all
\* chunks as they are now, an empty table returns the vector results at once
HybridSearchFuse ==
    /\ rag.pc = "vector"
    /\ \E all_chunks \in Orders(rag.chunks) :
          IF all_chunks = <<>>
          THEN rag' = [rag EXCEPT !.pc = "done",
                                  !.result = Take(rag.vector_results, rag.top_k)]
          ELSE LET bm25_results == bm25_top(all_chunks, rag.query, rag.top_k)
               IN  rag' = [rag EXCEPT !.pc = "done", !.bm25_results = bm25_results,
                                      !.result = rrf_fuse(rag.vector_results, bm25_results,
                                                          rag.top_k, rag.mode)]
    /\ RagFrame

\* the caller takes the list hybrid_search_knowledge_base returned
HybridSearchReturn ==
    /\ rag.pc = "done"
    /\ rag' = [NoRag EXCEPT !.chunks = rag.chunks]
    /\ RagFrame

RagNext ==
    \/ \E c \in ChunkKeys : CreateChunks(c)
    \/ \E c \in ChunkKeys : DeleteDocument(c)
    \/ \E query \in Queries, top_k \in TopKs, mode \in RagModes :
          HybridSearchVector(query, top_k, mode)
    \/ HybridSearchFuse
    \/ HybridSearchReturn

RagInit == Init /\ max_login_num = DefaultMaxLoginNum /\ has_model

RagSpec == RagInit /\ [][RagNext]_vars

RagTypeOK ==
    /\ rag.pc \in {"idle", "vector", "done"}
    /\ rag.chunks \subseteq ChunkKeys
    /\ Len(rag.result) <= rag.top_k
    /\ Keys(rag.result) \subseteq Keys(rag.vector_results) \cup Keys(rag.bm25_results)

(***************************************************************************)
(* Part IX - CustomResponsesModel._astream: the synchronous stream of the  *)
(* provider runs in a worker thread and reaches the event loop by a queue  *)
(***************************************************************************)
\* the deltas with text one response of the provider has at most
MaxProviderDeltas == 17

\* Queue() is built with no maxsize: 0, which queue.Queue takes as no limit
QueueMaxsize == 0

\* the None run_stream puts last
EndMark == 0

\* queue.put blocks while a queue with a positive maxsize is full
PutReady(queue) == QueueMaxsize <= 0 \/ Len(queue) < QueueMaxsize

BridgeFrame ==
    UNCHANGED <<sessVars, turnVars, storeVars, graphVars, authVars, threadVars, ragVars,
                unitVars>>

\* _astream up to thread.start(): a new queue, an empty error_holder, the thread
AStream ==
    /\ bridge.pc = "idle"
    /\ bridge' = [bridge EXCEPT !.pc = "consuming", !.thread = "running"]
    /\ BridgeFrame

\* run_stream: the next event of the response has text, queue.put(text)
RunStreamDelta ==
    /\ bridge.thread = "running"
    /\ bridge.emitted < MaxProviderDeltas
    /\ PutReady(bridge.queue)
    /\ bridge' = [bridge EXCEPT !.emitted = @ + 1,
                                !.queue = Append(@, bridge.emitted + 1)]
    /\ BridgeFrame

\* run_stream: the response ends, or the client raises and the exception goes to
\* error_holder; in both cases finally puts None
RunStreamEnd(raised) ==
    /\ bridge.thread = "running"
    /\ PutReady(bridge.queue)
    /\ bridge' = [bridge EXCEPT !.thread = "finished", !.error_holder = raised,
                                !.queue = Append(@, EndMark)]
    /\ BridgeFrame

\* the consumer loop raising the held error at the first item it gets after the
\* worker thread failed
AStreamGet_RaisesEarly ==
    /\ bridge.pc = "consuming"
    /\ bridge.queue # <<>>
    /\ LET text == Head(bridge.queue)
       IN  bridge' = [bridge EXCEPT
               !.queue = Tail(@),
               !.pc = IF bridge.error_holder THEN "raised"
                      ELSE IF text # EndMark THEN "consuming" ELSE "done",
               !.yielded = IF text # EndMark /\ ~bridge.error_holder THEN Append(@, text)
                           ELSE @]
    /\ BridgeFrame

\* the consumer loop of _astream when queue.get returns an item: None raises
\* the held error or ends the stream, a text is yielded as a chunk (an Empty
\* after the timeout changes nothing and the loop goes on)
AStreamGet ==
    /\ bridge.pc = "consuming"
    /\ bridge.queue # <<>>
    /\ LET text == Head(bridge.queue)
       IN  bridge' = [bridge EXCEPT
               !.queue = Tail(@),
               !.pc = IF text # EndMark THEN "consuming"
                      ELSE IF bridge.error_holder THEN "raised" ELSE "done",
               !.yielded = IF text # EndMark THEN Append(@, text) ELSE @]
    /\ BridgeFrame

BridgeNext ==
    \/ AStream
    \/ RunStreamDelta
    \/ \E raised \in BOOLEAN : RunStreamEnd(raised)
    \/ AStreamGet

BridgeInit == Init /\ max_login_num = DefaultMaxLoginNum /\ has_model

BridgeSpec == BridgeInit /\ [][BridgeNext]_vars

BridgeTypeOK ==
    /\ bridge.pc \in {"idle", "consuming", "done", "raised"}
    /\ bridge.thread \in {"none", "running", "finished"}
    /\ bridge.emitted \in 0..MaxProviderDeltas
    /\ Len(bridge.yielded) <= bridge.emitted
    /\ bridge.pc \in {"done", "raised"} => bridge.queue = <<>>

(***************************************************************************)
(* Part X - the routes of branch.py, called by the users of the deployment *)
(* on conversations of different owners                                    *)
(***************************************************************************)
\* the conversations a second user creates
OtherConvIds == {2}

BranchFrame ==
    /\ UNCHANGED <<checkpoints, svc, pc, req, node, step, gmessages, full_reply, log,
                   has_model, turn>>
    /\ UNCHANGED <<sessVars, graphVars, extVars>>

\* create_conversation: a new row of t_conversation for the user
CreateConversation(c, user_id) ==
    /\ c \notin DOMAIN convs
    /\ convs' = [d \in DOMAIN convs \cup {c} |->
                    IF d = c THEN [user_id |-> user_id, last_message_id |-> Null,
                                   current_message_id |-> Null]
                    ELSE convs[d]]
    /\ answer' = NoAnswer
    /\ UNCHANGED <<messages, db, persist>>
    /\ BranchFrame

\* the answer of a route of branch.py whose ensure_owner raised: 403
Forbidden(c, message_id) ==
    [op |-> "CONV-403", conversation_id |-> c, id |-> message_id, result |-> <<>>]

\* GET /branch/{conversation_id}/siblings?message_id=: ensure_owner of the
\* conversation, then get_sibling_messages of the message id alone
get_message_siblings(user_id, c, message_id) ==
    /\ IF EnsureOwner(convs, c, user_id)
       THEN \E r \in GetSiblingResults(messages, message_id) :
               answer' = [op |-> "get_message_siblings", conversation_id |-> c,
                          id |-> message_id, result |-> r]
       ELSE answer' = Forbidden(c, message_id)
    /\ UNCHANGED <<messages, convs, db, persist>>
    /\ BranchFrame

\* GET /branch/{conversation_id}/message/{message_id}: ensure_owner of the
\* conversation, then the row with that id, of whatever conversation
get_message_by_id(user_id, c, message_id) ==
    /\ IF EnsureOwner(convs, c, user_id)
       THEN answer' = [op |-> IF \E m \in Rows(messages) : m.id = message_id
                              THEN "get_message_by_id" ELSE "MSG-404",
                       conversation_id |-> c, id |-> message_id, result |-> <<>>]
       ELSE answer' = Forbidden(c, message_id)
    /\ UNCHANGED <<messages, convs, db, persist>>
    /\ BranchFrame

\* PUT /branch/{conversation_id}/current: ensure_owner of the conversation, then
\* the UPDATE of current_message_id to the id the request carries
set_current_message(user_id, c, message_id) ==
    /\ IF EnsureOwner(convs, c, user_id)
       THEN /\ convs' = [convs EXCEPT ![c].current_message_id = message_id]
            /\ answer' = [op |-> "set_current_message", conversation_id |-> c,
                          id |-> message_id, result |-> <<>>]
       ELSE /\ answer' = Forbidden(c, message_id)
            /\ UNCHANGED convs
    /\ UNCHANGED <<messages, db, persist>>
    /\ BranchFrame

BranchNext ==
    \/ \E user_id \in Users, c \in OtherConvIds : CreateConversation(c, user_id)
    \/ \E c \in ConvIds \cup OtherConvIds :
           \E parent_id \in {Null} \cup {m.id : m \in Rows(messages)} :
               PersistInsert(c, parent_id)
    \/ PersistUpdate
    \/ \E user_id \in Users, c \in ConvIds \cup OtherConvIds, message_id \in 1..MaxRows :
           \/ get_message_siblings(user_id, c, message_id)
           \/ get_message_by_id(user_id, c, message_id)
           \/ set_current_message(user_id, c, message_id)

BranchInit == Init /\ max_login_num = DefaultMaxLoginNum /\ has_model

BranchSpec == BranchInit /\ [][BranchNext]_vars

(***************************************************************************)
(* Part XI.  utils/snowflake.py: one SnowflakeGenerator shared by the      *)
(* threads of the process.  generate() runs under self._lock, so a call is *)
(* one step, except when the sequence overflows: the caller then keeps the *)
(* lock and spins in _wait_next_millis until the clock has moved on.       *)
(* Timestamps are counted in milliseconds from EPOCH, as generate() does   *)
(* when it assembles the id; last_timestamp = -1 is below every reading.   *)
(***************************************************************************)
MaxMillis == 2
MACHINE_ID_BITS == 10
SEQUENCE_BITS == 12
MAX_SEQUENCE == 2 ^ SEQUENCE_BITS - 1
MACHINE_ID_SHIFT == SEQUENCE_BITS
TIMESTAMP_SHIFT == SEQUENCE_BITS + MACHINE_ID_BITS

\* int(os.getenv("SNOWFLAKE_MACHINE_ID", "1"))
machine_id == 1

SnowThreads == {1, 2}

\* the three fields are disjoint bit ranges, so "|" of the shifted parts is their sum
snowflake_id(timestamp, sequence) ==
    timestamp * 2 ^ TIMESTAMP_SHIFT + machine_id * 2 ^ MACHINE_ID_SHIFT + sequence

SnowFrame ==
    UNCHANGED <<sessVars, turnVars, storeVars, graphVars, authVars, threadVars, ragVars,
                bridgeVars, cb, deep>>

\* time.time() moves on by a millisecond
SnowTick ==
    /\ snow.clock < MaxMillis
    /\ snow' = [snow EXCEPT !.clock = @ + 1]
    /\ SnowFrame

\* the system clock is set back by a millisecond
SnowBack ==
    /\ snow.clock > 0
    /\ snow' = [snow EXCEPT !.clock = @ - 1]
    /\ SnowFrame

\* what a caller gets back, with the id that was returned before it
Returned(s, timestamp, sequence, how) ==
    [s EXCEPT !.sequence = sequence, !.last_timestamp = timestamp, !.pc = "free",
              !.holder = 0, !.prev = s.id, !.id = snowflake_id(timestamp, sequence),
              !.outcome = how]

\* the overflow is not waited out: the id is assembled in the same millisecond
Generate_NoWait(t) ==
    /\ snow.pc = "free"
    /\ LET timestamp == snow.clock
       IN  IF timestamp < snow.last_timestamp
           THEN snow' = [snow EXCEPT !.outcome = "RuntimeError"]
           ELSE IF timestamp = snow.last_timestamp
           THEN LET sequence == (snow.sequence + 1) % (MAX_SEQUENCE + 1)
                IN  snow' = Returned(snow, timestamp, sequence, "id")
           ELSE snow' = Returned(snow, timestamp, 0, "id")
    /\ SnowFrame

\* generate(), by thread t, from taking the lock to the return, the raise or the wait
Generate(t) ==
    /\ snow.pc = "free"
    /\ LET timestamp == snow.clock
       IN  IF timestamp < snow.last_timestamp
           THEN snow' = [snow EXCEPT !.outcome = "RuntimeError"]
           ELSE IF timestamp = snow.last_timestamp
           THEN LET sequence == (snow.sequence + 1) % (MAX_SEQUENCE + 1)
                IN  IF sequence = 0
                    THEN snow' = [snow EXCEPT !.sequence = 0, !.pc = "waiting",
                                              !.holder = t]
                    ELSE snow' = Returned(snow, timestamp, sequence, "id")
           ELSE snow' = Returned(snow, timestamp, 0, "id")
    /\ SnowFrame

\* _wait_next_millis reads a later millisecond and generate() returns
WaitNextMillis(t) ==
    /\ snow.pc = "waiting"
    /\ snow.holder = t
    /\ snow.clock > snow.last_timestamp
    /\ snow' = Returned(snow, snow.clock, snow.sequence, "id_after_wait")
    /\ SnowFrame

SnowNext ==
    \/ SnowTick
    \/ SnowBack
    \/ \E t \in SnowThreads : Generate(t)
    \/ \E t \in SnowThreads : WaitNextMillis(t)

SnowInit == Init /\ max_login_num = DefaultMaxLoginNum /\ has_model

SnowSpec == SnowInit /\ [][SnowNext]_vars

SnowTypeOK ==
    /\ snow.sequence \in 0..MAX_SEQUENCE
    /\ snow.last_timestamp \in -1..MaxMillis
    /\ snow.clock \in 0..MaxMillis
    /\ snow.pc \in {"free", "waiting"}
    /\ snow.holder \in SnowThreads \cup {0}
    /\ (snow.pc = "waiting") = (snow.holder # 0)
    /\ snow.outcome \in {"none", "id", "id_after_wait", "RuntimeError"}

(***************************************************************************)
(* Part XII.  Turns of the deep_search sub-graph on one checkpointed       *)
(* thread.  The graph is compiled with a checkpointer and invoked with a   *)
(* thread_id; the input of an invocation carries messages (and the mode),  *)
(* so the channels question, planning_rounds, search_queries and           *)
(* references of AgentState, which have no reducer, keep the values the    *)
(* checkpoint of the thread holds.  A question is a number, 0 for the      *)
(* empty string; search_queries and references are told apart only by      *)
(* being empty or not.                                                     *)
(***************************************************************************)
MaxDeepTurns == 2

\* what the user may ask in a turn
DeepQuestions == {1, 2}

DeepFrame ==
    UNCHANGED <<sessVars, turnVars, storeVars, graphVars, authVars, threadVars, ragVars,
                bridgeVars, snow, cb>>

\* question = state.get("question", ""); if not question: the last HumanMessage
question_of(d) == IF d.question # 0 THEN d.question ELSE d.latest

\* the node read its question: it is remembered for the turn
Used(d, name) == [d EXCEPT !.used = @ \cup {<<name, question_of(d)>>}]

\* the invocation of a turn: the messages of the input end with the user's message;
\* every other channel is what the checkpoint of the thread holds
DeepInvoke(q, max_rounds) ==
    /\ deep.status \in {"idle", "end"}
    /\ deep.turns < MaxDeepTurns
    /\ deep.turns > 0 => max_rounds = deep.max_rounds
    /\ deep' = [deep EXCEPT !.status = "running", !.node = "router", !.turns = @ + 1,
                            !.latest = q, !.max_rounds = max_rounds, !.used = {},
                            !.rounds = 0,
                            !.begun = [planning_rounds |-> deep.planning_rounds,
                                       search_queries  |-> deep.search_queries,
                                       references      |-> deep.references]]
    /\ DeepFrame

\* node "router", then mode_router with mode = "deep_search"
DeepRouter ==
    /\ deep.status = "running" /\ deep.node = "router"
    /\ deep' = [deep EXCEPT !.node = mode_router("deep_search")]
    /\ DeepFrame

\* kb_precheck_node: every return writes the question it read; the knowledge base adds
\* a reference when it has a hit
DeepKbPrecheck(hit) ==
    /\ deep.status = "running" /\ deep.node = "kb_precheck"
    /\ deep' = [Used(deep, "kb_precheck") EXCEPT
                   !.question = question_of(deep),
                   !.references = @ \/ hit,
                   !.node = "planning"]
    /\ DeepFrame

\* planning_node: planning_rounds + 1 and the question it read in every return; then
\* the conditional edge planning_router
DeepPlanning(asks) ==
    /\ deep.status = "running" /\ deep.node = "planning"
    /\ LET planning_rounds == deep.planning_rounds + 1
       IN deep' = [Used(deep, "planning") EXCEPT
                      !.question = question_of(deep),
                      !.planning_rounds = planning_rounds,
                      !.search_queries = asks,
                      !.rounds = @ + 1,
                      !.node = planning_router(planning_rounds, asks, deep.max_rounds)]
    /\ DeepFrame

\* search_node with a Tavily key: the results join the references, the queries are
\* emptied; without a key both stay
DeepSearch(has_key) ==
    /\ deep.status = "running" /\ deep.node = "search"
    /\ deep' = [deep EXCEPT
                   !.references = IF has_key THEN TRUE ELSE @,
                   !.search_queries = IF has_key THEN FALSE ELSE @,
                   !.node = "planning"]
    /\ DeepFrame

\* summary_node: it returns the answer and empties search_queries; then END, and the
\* checkpoint of the thread keeps the other channels
DeepSummary ==
    /\ deep.status = "running" /\ deep.node = "summary"
    /\ deep' = [Used(deep, "summary") EXCEPT
                   !.search_queries = FALSE,
                   !.status = "end", !.node = "none"]
    /\ DeepFrame

DeepNext ==
    \/ \E q \in DeepQuestions, max_rounds \in MaxRoundsValues : DeepInvoke(q, max_rounds)
    \/ DeepRouter
    \/ \E hit \in BOOLEAN : DeepKbPrecheck(hit)
    \/ \E asks \in BOOLEAN : DeepPlanning(asks)
    \/ \E has_key \in BOOLEAN : DeepSearch(has_key)
    \/ DeepSummary

DeepInit == Init /\ max_login_num = DefaultMaxLoginNum /\ has_model

DeepSpec == DeepInit /\ [][DeepNext]_vars

DeepTypeOK ==
    /\ deep.status \in {"idle", "running", "end"}
    /\ deep.node \in {"none", "router", "kb_precheck", "planning", "search", "summary"}
    /\ deep.turns \in 0..MaxDeepTurns
    /\ deep.latest \in DeepQuestions \cup {0}
    /\ deep.question \in DeepQuestions \cup {0}
    /\ deep.planning_rounds >= deep.rounds
    /\ deep.max_rounds \in MaxRoundsValues

(***************************************************************************)
(* Part XIII.  What chatbot_node hands to the model, over the turns of one *)
(* thread of the chat sub-graph.  A message is its type and its id; the    *)
(* ids add_messages gives are all "uuid" here, since only the id           *)
(* "sys_context" is ever looked for.  kb_context and history_context are   *)
(* told apart only by being empty or not; context_node computes them from  *)
(* services the state is given, so both values are possible for each.      *)
(***************************************************************************)
MaxCbMessages == 8

Msg(type) == [type |-> type, id |-> "uuid"]

\* SystemMessage(content=..., id="sys_context")
context_message == [type |-> "system", id |-> "sys_context"]

\* any(isinstance(m, SystemMessage) and getattr(m, "id", None) == "sys_context" ...)
has_system(msgs) ==
    \E i \in 1..Len(msgs) :
        msgs[i].type = "system" /\ msgs[i].id = "sys_context"

\* the index behind the first SystemMessage of the list, 0 when it has none
insert_idx(msgs) ==
    LET sys == {i \in 1..Len(msgs) : msgs[i].type = "system"}
    IN  IF sys = {} THEN 0 ELSE CHOOSE i \in sys : \A j \in sys : i <= j

\* list.insert(idx, m)
Insert(msgs, idx, m) ==
    SubSeq(msgs, 1, idx) \o <<m>> \o SubSeq(msgs, idx + 1, Len(msgs))

\* the context message is put in front of the list, whatever the list holds
chatbot_messages_AtFront(msgs, kb_context, history_context) ==
    IF (kb_context \/ history_context) /\ ~has_system(msgs)
    THEN Insert(msgs, 0, context_message)
    ELSE msgs

\* the list chatbot_node passes to model.ainvoke
chatbot_messages(msgs, kb_context, history_context) ==
    IF (kb_context \/ history_context) /\ ~has_system(msgs)
    THEN Insert(msgs, insert_idx(msgs), context_message)
    ELSE msgs

CbFrame ==
    UNCHANGED <<sessVars, turnVars, storeVars, graphVars, authVars, threadVars, ragVars,
                bridgeVars, snow, deep>>

\* the invocation of a turn: add_messages appends the input, whose messages have no
\* id; ChatService builds it as the instruction, the history and the user's message,
\* AgentService as the user's message alone; router and rewrite add no system message
CbInvoke(with_system, with_history, tools) ==
    LET input == (IF with_system THEN <<Msg("system")>> ELSE <<>>)
                 \o (IF with_history THEN <<Msg("human"), Msg("ai")>> ELSE <<>>)
                 \o <<Msg("human")>>
    IN  /\ cb.node \in {"none", "end"}
        /\ cb.messages # <<>> => with_system = (cb.messages[1].type = "system")
        /\ ~with_system => ~with_history
        /\ Len(cb.messages) + Len(input) + 1 <= MaxCbMessages
        /\ cb' = [cb EXCEPT !.messages = @ \o input, !.tools = tools,
                            !.node = "context_retrieval"]
        /\ CbFrame

\* context_node returns the two contexts of the turn
CbContext(kb_context, history_context) ==
    /\ cb.node = "context_retrieval"
    /\ cb' = [cb EXCEPT !.kb_context = kb_context, !.history_context = history_context,
                        !.node = "chatbot"]
    /\ CbFrame

\* chatbot_node: the list it builds goes to the model, the response alone goes back to
\* the state; then tools_condition
CbChatbot(tool_calls) ==
    /\ cb.node = "chatbot"
    /\ tool_calls => cb.tools /\ Len(cb.messages) + 3 <= MaxCbMessages
    /\ cb' = [cb EXCEPT
                 !.sent = chatbot_messages(cb.messages, cb.kb_context, cb.history_context),
                 !.messages = Append(@, Msg("ai")),
                 !.node = IF tool_calls THEN "tools" ELSE "end"]
    /\ CbFrame

\* the tool node appends its result; then the edge back to chatbot
CbTools ==
    /\ cb.node = "tools"
    /\ cb' = [cb EXCEPT !.messages = Append(@, Msg("tool")), !.node = "chatbot"]
    /\ CbFrame

CbNext ==
    \/ \E with_system, with_history, tools \in BOOLEAN :
           CbInvoke(with_system, with_history, tools)
    \/ \E kb_context, history_context \in BOOLEAN : CbContext(kb_context, history_context)
    \/ \E tool_calls \in BOOLEAN : CbChatbot(tool_calls)
    \/ CbTools

CbInit == Init /\ max_login_num = DefaultMaxLoginNum /\ has_model

CbSpec == CbInit /\ [][CbNext]_vars

CbTypeOK ==
    /\ Len(cb.messages) <= MaxCbMessages
    /\ ~has_system(cb.messages)
    /\ Len(cb.sent) <= MaxCbMessages + 1
    /\ cb.node \in {"none", "context_retrieval", "chatbot", "tools", "end"}

(***************************************************************************)
(* Claims about the session gate (checked under SessionSpec)               *)
(***************************************************************************)
\* tokens for which get_current_user answers with the user
Validating == {t \in TokenIds : Authenticate(detail, t, now) = "OK"}

C2_ThirdLoginEvictsFirst ==
    ( /\ max_login_num = 2
      /\ serial
      /\ sess_op.op = "save"
      /\ Len(issued) = 3
      /\ issued[1] < issued[2] /\ issued[2] < issued[3]
      /\ now < issued[1] + TtlSec )
    => /\ Authenticate(detail, issued[1], now) = "Unauthorized"
       /\ Authenticate(detail, issued[2], now) = "OK"
       /\ Authenticate(detail, issued[3], now) = "OK"

\* C3: right after a save_session call completes, every member of the index has
\* an existing detail key, every existing detail key is a member of the index,
\* and no more tokens validate than the index has members.
C3_IndexAndDetailAgree ==
    sess_op.op = "save"
    => /\ \A t \in Members(zindex) : detail[t] # 0
       /\ \A t \in TokenIds : detail[t] # 0 => t \in Members(zindex)
       /\ Cardinality(Validating) <= ZCARD(zindex)

\* a save swept a stale index entry (its detail key had expired) and left live sessions
C3_Witness ==
    /\ sess_op.op = "save"
    /\ sess_op.swept > 0
    /\ ZCARD(zindex) >= 2

\* C23: when remove_session(u, t) completes, authentication with t is Unauthorized
\* although the JWT of t still decodes, and every other session of the user keeps
\* its index membership and its detail key
C23_RemovedSessionRejected ==
    [][\A tok \in TokenIds :
          RemoveSession(tok) =>
              /\ decode_token(tok, now')
              /\ Authenticate(detail', tok, now') = "Unauthorized"
              /\ \A other \in TokenIds \ {tok} :
                    /\ detail'[other] = detail[other]
                    /\ zindex'[other] = zindex[other]]_vars

\* two sessions were created, nothing was evicted or has expired, the first one was
\* removed and the second one is still there
C23_Witness ==
    /\ sess_op.op = "remove"
    /\ Len(issued) = 2
    /\ issued[1] # issued[2]
    /\ now < issued[1] + TtlSec
    /\ detail[issued[1]] = 0 /\ zindex[issued[1]] = NoScore
    /\ detail[issued[2]] # 0 /\ zindex[issued[2]] # NoScore

(***************************************************************************)
(* Claims about the streaming turn (checked under TurnSpec)                *)
(***************************************************************************)
\* positions of the log with a record of the given type
At(type) == {i \in 1..Len(log) : log[i].type = type}

\* the chunk records of the turn, in emission order
Chunks == SelectSeq(log, LAMBDA r : r.type = "chunk")

\* "".join of the contents of the chunk records
ChunkText == Join([i \in 1..Len(Chunks) |-> Chunks[i].content])

\* rows the turn inserted
NewMessages == SubSeq(messages, turn.base + 1, Len(messages))

NewOf(role) == SelectSeq(NewMessages, LAMBDA m : m.role = role)

\* C4: in every turn that completes without error exactly one done event is emitted,
\* it is the last event of the stream and every chunk and tool_* event precedes it;
\* a turn that has not completed has emitted no done event.
C4_ExactlyOneDoneLast ==
    /\ pc = "done" =>
          /\ Cardinality({i \in 1..Len(Events) : Events[i].type = "done"}) = 1
          /\ Events[Len(Events)].type = "done"
    /\ \A i \in 1..Len(Events) : Events[i].type = "done" => i = Len(Events) /\ pc = "done"

C4_Witness ==
    /\ pc = "done"
    /\ \E i \in 1..Len(Events) : Events[i].type = "chunk"
    /\ \E i \in 1..Len(Events) : Events[i].type = "tool_end"

\* C5: a model token is forwarded as a chunk event only if it was produced inside one
\* of the output nodes chatbot and summary, never if inside planning or rewrite (the
\* echo of a deployment without a model comes from no node).
C5_OnlyOutputNodeTokens ==
    \A i \in At("chunk") : log[i].node # "" => log[i].node \in OutputNodes

\* C6: when the assistant message of a turn is persisted, its content is the
\* concatenation, in emission order, of the contents of the chunk events of the turn.
C6_ChunksEqualPersisted ==
    pc \in {"emit_done", "done"} => messages[Len(messages)].content = ChunkText

\* C7: if the graph or the provider raises after streaming has started (a chunk was
\* sent), the last event of the stream is an error event and the stream has no done
\* event.
C7_ErrorEventOnFailure ==
    (pc = "failed" /\ turn.error = "model" /\ At("chunk") # {}) =>
        /\ Events # <<>>
        /\ Events[Len(Events)].type = "error"
        /\ \A i \in 1..Len(Events) : Events[i].type # "done"

\* C8: within a turn every checkpoint write precedes the persist of the assistant
\* message, which precedes the done event; a done event is never emitted without the
\* persist, and a turn that ran the graph of ChatService has written a checkpoint
\* by the time the assistant message is persisted.
C8_PutBeforePersistBeforeDone ==
    /\ \A i \in At("put") : \A j \in At("persist_assistant") : i < j
    /\ \A j \in At("persist_assistant") : \A k \in At("done") : j < k
    /\ At("done") # {} => At("persist_assistant") # {}
    /\ (svc = "chat" /\ has_model /\ At("persist_assistant") # {}) => At("put") # {}

C8_Witness ==
    /\ pc = "done"
    /\ svc = "chat"
    /\ At("put") # {}
    /\ At("chunk") # {}

\* C9: a non-regenerate streaming turn persists exactly one user message and exactly
\* one assistant message, and the parent_id of the assistant message is the id of the
\* user message of the turn.
C9_AssistantChildOfUser ==
    (pc = "done" /\ ~req.regenerate) =>
        /\ Len(NewOf("user")) = 1
        /\ Len(NewOf("assistant")) = 1
        /\ NewOf("assistant")[1].parent_id = NewOf("user")[1].id

\* the assistant message that answers a user message: the row inserted right after it
OriginalAssistant(user_id) ==
    {i \in 1..turn.base : i > 1 /\ messages[i].role = "assistant" /\ messages[i - 1].id = user_id}

\* C10: a regenerate turn on a prior user message by the owner of the conversation
\* persists no new user message and exactly one new assistant message with the
\* parent_id of the original assistant message, and the sibling query on either
\* assistant id gives both ids, total = 2.
C10_RegenerateAddsSibling ==
    (/\ svc = "route" /\ req.regenerate
     /\ pc \in {"done", "failed"} /\ turn.error # "403"
     /\ OriginalAssistant(req.parent_message_id) # {}) =>
        /\ Len(NewOf("user")) = 0
        /\ Len(NewOf("assistant")) = 1
        /\ \A i \in OriginalAssistant(req.parent_message_id) :
              /\ NewOf("assistant")[1].parent_id = messages[i].parent_id
              /\ \A id \in {messages[i].id, NewOf("assistant")[1].id} :
                    /\ GetSiblingMessages(messages, id).total = 2
                    /\ {GetSiblingMessages(messages, id).siblings[k] : k \in 1..2}
                          = {messages[i].id, NewOf("assistant")[1].id}

\* C13: the assistant message persisted by a turn that ran the graph on the thread of
\* the conversation carries a checkpoint_id equal to the latest checkpoint of the
\* turn (here: its position in the checkpoint store), which exists and whose stored
\* state contains a message with the content of the assistant message.
C13_AssistantCarriesCheckpoint ==
    (svc = "chat" /\ has_model) =>
        \A i \in 1..Len(NewOf("assistant")) :
            LET m == NewOf("assistant")[i]
            IN /\ m.checkpoint_id \in 1..Len(checkpoints)
               /\ m.checkpoint_id = LatestCheckpoint(checkpoints, m.conversation_id)
               /\ \E k \in 1..Len(checkpoints[m.checkpoint_id].messages) :
                     checkpoints[m.checkpoint_id].messages[k].content = m.content

\* C18: after any sequence of turns on a conversation at most one message of the
\* conversation has parent_id = null.
C18_AtMostOneRoot ==
    \A c \in DOMAIN convs :
        Cardinality({i \in 1..Len(messages) :
                        messages[i].conversation_id = c /\ messages[i].parent_id = Null}) <= 1

C28_ToolStartBeforeEndBeforeDone ==
    /\ \A j \in At("tool_end") :
          Cardinality({i \in At("tool_start") : i < j})
              >= Cardinality({i \in At("tool_end") : i <= j})
    /\ \A d \in At("done") : \A i \in At("tool_start") \cup At("tool_end") : i < d

\* an agent turn with a tool round that reached done
C28_Witness ==
    /\ pc = "done"
    /\ svc = "agent"
    /\ At("tool_start") # {}
    /\ At("tool_end") # {}
    /\ At("done") # {}

\* C32: a step of the rewrite node either leaves the messages as they are (it
\* skipped, the model gave the same text, or the call raised) or puts the
\* rewritten text in the place of the last user message: the count is the same
\* and the messages before the last are the same.
C32_RewriteSubstitutesLastMessage ==
    [][(pc = "graph" /\ node = "rewrite" /\ node' = "context_retrieval") =>
          \/ gmessages' = gmessages
          \/ /\ Len(gmessages') = Len(gmessages)
             /\ gmessages'[Len(gmessages')] = GMsg("human", turn.call)
             /\ SubSeq(gmessages', 1, Len(gmessages) - 1)
                    = SubSeq(gmessages, 1, Len(gmessages) - 1)]_vars

(***************************************************************************)
(* Claims about the conversation store (checked under StoreSpec)           *)
(***************************************************************************)
\* C11: after persist_message returns the new row m for conversation c,
\* c.last_message_id = m.id and c.current_message_id = m.id (last_message_at is set
\* by the same UPDATE as last_message_id).
C11_PersistMovesAllPointers ==
    (answer.op = "persist_message" /\ answer.conversation_id \in DOMAIN convs) =>
        /\ convs[answer.conversation_id].last_message_id = answer.id
        /\ convs[answer.conversation_id].current_message_id = answer.id

\* C12: no reader and no failure between the steps of persist_message finds a state
\* in which a message row of a conversation exists while the conversation's
\* last_message_id refers neither to it nor to a later message.
C12_InsertAndPointerAtomic ==
    \A m \in Rows(messages) :
        m.conversation_id \in DOMAIN convs =>
            convs[m.conversation_id].last_message_id >= m.id

\* C17: in every reachable state the current_message_id of a conversation is null or
\* the id of an existing message of that conversation.
C17_CurrentMessageResolves ==
    \A c \in DOMAIN convs :
        \/ convs[c].current_message_id = Null
        \/ \E m \in Rows(messages) :
              m.id = convs[c].current_message_id /\ m.conversation_id = c

\* the ids of the rows with the given parent_id, ascending by (create_time, id)
SortedSiblings(msgs, parent_id) ==
    CHOOSE q \in SiblingOrders(msgs, parent_id) :
        \A i, j \in 1..Len(q) :
            (i < j /\ q[i].create_time = q[j].create_time) => q[i].id < q[j].id

\* C19: for a message m with non-null parent_id, get_sibling_messages(m.id) returns
\* exactly the messages with m's parent_id, ascending by (create_time, id), and
\* `current` is the 0-based position of m.id in that list.
C19_SiblingsSortedByTimeThenId ==
    (/\ answer.op = "get_sibling_messages"
     /\ \E m \in Rows(messages) : m.id = answer.id /\ m.parent_id # Null) =>
        LET m == CHOOSE r \in Rows(messages) : r.id = answer.id
            q == SortedSiblings(messages, m.parent_id)
        IN /\ answer.result.siblings = [i \in 1..Len(q) |-> q[i].id]
           /\ answer.result.total = Len(q)
           /\ answer.result.siblings[answer.result.current + 1] = answer.id

\* the ids met from the given id upwards along parent_id until null, root first
RECURSIVE Chain(_, _)
Chain(msgs, id) ==
    IF id = Null \/ ~\E m \in Rows(msgs) : m.id = id
    THEN <<>>
    ELSE Append(Chain(msgs, (CHOOSE m \in Rows(msgs) : m.id = id).parent_id), id)

\* C20: when the current_message_id of a conversation is non-null, the linearised
\* history is exactly the chain from current_message_id upwards along parent_id until
\* null, root first, and holds no message of another branch.
C20_HistoryIsChainOfCurrent ==
    (/\ answer.op = "history"
     /\ answer.conversation_id \in DOMAIN convs
     /\ convs[answer.conversation_id].current_message_id # Null) =>
        answer.result = Chain(messages, convs[answer.conversation_id].current_message_id)

(***************************************************************************)
(* Claims about one invocation of the graph                                *)
(***************************************************************************)
\* a deep_search invocation that ended and whose planner gave a query on every call
CappedRun ==
    /\ run.status = "end"
    /\ run.mode = "deep_search"
    /\ run.planner_always_asks

CapRounds(N) == IF N >= 1 THEN N ELSE 1

ChatEdges ==
    {<<"router", "rewrite">>, <<"rewrite", "context_retrieval">>,
     <<"context_retrieval", "chatbot">>, <<"chatbot", "tools">>, <<"tools", "chatbot">>}

DeepEdges ==
    {<<"router", "kb_precheck">>, <<"kb_precheck", "planning">>,
     <<"planning", "search">>, <<"search", "planning">>, <<"planning", "summary">>}

\* the sequence starts at router and follows the edges only
Follows(t, edges) ==
    /\ t # <<>> => t[1] = "router"
    /\ \A i \in 1..(Len(t) - 1) : <<t[i], t[i + 1]>> \in edges

C16_LlmErrorEndsInvocation ==
    run.llm_error # "none" =>
        /\ run.status = "error"
        /\ run.trace[Len(run.trace)] = run.llm_error

\* C34: when the search node has just run and planning is next, search_queries is
\* empty.
C34_SearchLeavesNoQueries ==
    (run.status = "running" /\ run.node = "planning" /\ run.trace # <<>>
        /\ run.trace[Len(run.trace)] = "search") => ~run.search_queries

C24_RedisDownIs503 ==
    (/\ auth.status # 0
     /\ ~auth.reachable
     /\ \E i \in DOMAIN issued : issued[i] = auth.token
     /\ decode_token(auth.token, now)) =>
        auth.status = 503

(***************************************************************************)
(* Claims about the checkpoint thread (checked under ThreadSpec)           *)
(***************************************************************************)
\* C21: for two checkpoints of a thread with the same parent, the sibling query on
\* the one returns a set that contains the other (stated for the checkpoint the
\* last query was about and every checkpoint that shares its existing parent)
C21_SameParentAreSiblings ==
    cp_answer.checkpoint_id # Null =>
        \A c2 \in ThreadCheckpoints(checkpoints, Thread) :
            (/\ ParentId(checkpoints, c2) # Null
             /\ ParentId(checkpoints, c2) = ParentId(checkpoints, cp_answer.checkpoint_id)) =>
                c2 \in cp_answer.siblings

\* C25: after delete_conversation(c) no message of c remains and the checkpoint
\* thread of c holds no checkpoint (stated once no invocation is running any more)
C25_DeleteClearsThread ==
    (Thread \notin DOMAIN convs /\ \A i \in Invokers : inv[i].pc = "idle") =>
        /\ ConvMessages(messages, Thread) = <<>>
        /\ ThreadCheckpoints(checkpoints, Thread) = {}

\* the fork anchor of the checkpoint the sibling query was asked about
AnswerAnchor ==
    Anchor(checkpoints, ThreadCheckpoints(checkpoints, Thread), cp_answer.checkpoint_id,
           MessageCount(checkpoints, cp_answer.checkpoint_id))

\* the checkpoints that descend from that anchor with more messages than it
AnswerCandidates ==
    {h \in ThreadCheckpoints(checkpoints, Thread) :
        /\ MessageCount(checkpoints, h) > MessageCount(checkpoints, AnswerAnchor)
        /\ IsDescendant(checkpoints, ThreadCheckpoints(checkpoints, Thread), h, AnswerAnchor)}

\* C31: when the queried checkpoint has a fork anchor, every checkpoint the
\* sibling query returns is a candidate that is the parent of no other candidate,
\* the queried checkpoint included.
C31_SiblingsAreLeafCandidates ==
    (cp_answer.checkpoint_id # Null /\ AnswerAnchor # Null) =>
        \A s \in cp_answer.siblings :
            /\ s \in AnswerCandidates
            /\ ~\E child \in AnswerCandidates \ {s} : ParentId(checkpoints, child) = s

(***************************************************************************)
(* Claims about turns on a long thread (checked under LongThreadSpec)      *)
(***************************************************************************)
\* the messages chatbot_node hands to the model, without the system messages
HandedToModel == SelectSeq(gmessages, LAMBDA m : m.role # "system")

\* C30: in every turn of a conversation, also after the first on a checkpointed
\* thread, the messages handed to the model are within the trim bound: at most
\* max_history_messages messages that are not system messages, and at most
\* max_history_tokens tokens unless a single message is left
C30_HandedWithinTrimBound ==
    (svc = "chat" /\ pc = "graph" /\ node = "chatbot" /\ step \in {"llm_open", "llm"}) =>
        /\ Len(HandedToModel) <= MaxHistoryMessages
        /\ Len(HandedToModel) > 1 => TotalTokens(HandedToModel) <= MaxHistoryTokens

(***************************************************************************)
(* Claims about hybrid search (checked under RagSpec)                      *)
(***************************************************************************)
\* C26: a hybrid search in mode intersection returns only documents that are in
\* both the vector list and the BM25 list of that search, also when the second
\* statement finds no chunk for BM25 (the BM25 list is then empty).
C26_IntersectionWithinBothLists ==
    (rag.pc = "done" /\ rag.mode = "intersection") =>
        Keys(rag.result) \subseteq Keys(rag.vector_results) \cap Keys(rag.bm25_results)

\* the corpus of C27: A matches the query by similarity only, B by keywords
\* only, C by both
VectorOnlyBm25OnlyBoth ==
    /\ rag.chunks = ChunkKeys
    /\ rag.query.sim["A"] >= Threshold /\ rag.query.bm["A"] = 0
    /\ rag.query.sim["B"] < Threshold /\ rag.query.bm["B"] > 0
    /\ rag.query.sim["C"] >= Threshold /\ rag.query.bm["C"] > 0

\* C27: on the corpus A (vector only), B (BM25 only), C (both), a union search
\* with top_k = 3 returns the three documents with C first, whatever the order
\* of A and C by similarity and of B and C by BM25 score.
C27_UnionRanksBothFirst ==
    (rag.pc = "done" /\ rag.mode = "union" /\ rag.top_k = 3 /\ VectorOnlyBm25OnlyBoth
        /\ Keys(rag.vector_results) = {"A", "C"}) =>
        /\ Keys(rag.result) = ChunkKeys
        /\ rag.result[1] = "C"

(***************************************************************************)
(* Claims about the provider bridge (checked under BridgeSpec)             *)
(***************************************************************************)
\* the deltas the worker thread produced and the consumer did not take yet
Unconsumed == Cardinality({i \in 1..Len(bridge.queue) : bridge.queue[i] # EndMark})

\* C29: the deltas produced and not yet consumed never exceed the capacity of
\* the channel, taken at its least value of 16, and a worker thread that faces
\* more unconsumed deltas than that is blocked.
C29_ChannelIsBounded ==
    /\ Unconsumed <= 16
    /\ (bridge.thread = "running" /\ Unconsumed > 16) => ~PutReady(bridge.queue)

(***************************************************************************)
(* Claims about the branch routes (checked under BranchSpec)               *)
(***************************************************************************)
\* the rows a successful answer of a branch route revealed or acted on: the row
\* with the id of the request (for the sibling query only if it has a parent,
\* otherwise the answer echoes the id)
BranchTouched ==
    {m \in Rows(messages) :
        /\ answer.op \in {"get_message_siblings", "get_message_by_id", "set_current_message"}
        /\ m.id = answer.id
        /\ answer.op = "get_message_siblings" => m.parent_id # Null}

\* C39: a branch route that answered with success revealed or acted on a message
\* of a conversation of the caller only (the caller is the owner of the
\* conversation named in the request, ensure_owner passed).
C39_BranchStaysWithOwner ==
    \A m \in BranchTouched :
        m.conversation_id \in DOMAIN convs =>
            convs[m.conversation_id].user_id = convs[answer.conversation_id].user_id

(***************************************************************************)
(* Claims about the order of the provider bridge (checked under BridgeSpec) *)
(***************************************************************************)
\* C40: what the consumer yielded is the beginning of what the worker thread
\* enqueued, in production order and each delta once; the iterator has ended
\* exactly when the end mark was taken, and then, whether it ended normally or
\* by the re-raised error of the worker thread, every enqueued delta was yielded.
C40_YieldedInOrderThenEnd ==
    /\ bridge.yielded = [i \in 1..Len(bridge.yielded) |-> i]
    /\ bridge.yielded \o SelectSeq(bridge.queue, LAMBDA x : x # EndMark)
           = [i \in 1..bridge.emitted |-> i]
    /\ bridge.pc \in {"done", "raised"} =>
          /\ Len(bridge.yielded) = bridge.emitted
          /\ bridge.thread = "finished" /\ bridge.queue = <<>>
          /\ (bridge.pc = "raised") = bridge.error_holder
    /\ (bridge.thread = "finished" /\ bridge.pc = "consuming") =>
          bridge.queue # <<>> /\ bridge.queue[Len(bridge.queue)] = EndMark

\* the worker thread failed after two deltas or more and the consumer raised
C40_Witness ==
    bridge.pc = "raised" /\ Len(bridge.yielded) >= 2

(***************************************************************************)
(* Claims about the Snowflake generator                                    *)
(***************************************************************************)
\* C35: the ids one SnowflakeGenerator returns, in the order in which the callers took
\* the lock, are strictly increasing (so pairwise distinct), a sequence overflow within
\* one millisecond included; a generate() that reads a clock earlier than last_timestamp
\* raises RuntimeError and leaves sequence, last_timestamp and the ids as they were.
C35_IdsIncreaseAndRaiseKeepsState ==
    /\ [](snow.id # -1 => snow.prev < snow.id)
    /\ [](snow.pc = "free" /\ snow.id # -1
            => snow.id = snowflake_id(snow.last_timestamp, snow.sequence))
    /\ [][(snow.pc = "free" /\ snow.clock < snow.last_timestamp
             /\ snow'.clock = snow.clock)
            => /\ snow'.outcome = "RuntimeError"
               /\ snow'.sequence = snow.sequence
               /\ snow'.last_timestamp = snow.last_timestamp
               /\ snow'.id = snow.id]_vars

\* the sequence ran through a whole millisecond and the next id came after the wait
C35_Witness ==
    /\ snow.outcome = "id_after_wait"
    /\ snow.prev % 2 ^ SEQUENCE_BITS = MAX_SEQUENCE
    /\ snow.sequence = 0

\* a call was refused because the clock had been set back
C35_Refused == snow.outcome = "RuntimeError" /\ snow.clock < snow.last_timestamp

(***************************************************************************)
(* Claims about deep_search turns on a checkpointed thread                 *)
(***************************************************************************)
\* C36: in every deep_search turn on a checkpointed thread, the question kb_precheck,
\* planning and summary work on is the latest user message of that turn, never a
\* question an earlier turn left in the state.
C36_QuestionIsLatestUserMessage ==
    \A u \in deep.used : u[2] = deep.latest

\* C37: every deep_search turn on a checkpointed thread starts with planning_rounds = 0
\* and with empty references and search_queries, so that it can run up to
\* deep_search_max_rounds planning rounds.
C37_TurnStartsFromZero ==
    deep.turns > 0 =>
        /\ deep.begun.planning_rounds = 0
        /\ ~deep.begun.references
        /\ ~deep.begun.search_queries

(***************************************************************************)
(* Claims about the list chatbot_node hands to the model                   *)
(***************************************************************************)
\* where the context message is in the list that was sent
SentContext == {i \in 1..Len(cb.sent) : cb.sent[i].id = "sys_context"}

\* where the instruction messages are in the list that was sent
SentInstructions ==
    {i \in 1..Len(cb.sent) : cb.sent[i].type = "system" /\ cb.sent[i].id # "sys_context"}

\* C33: in every execution of the chatbot node, a re-entry after tools and a later turn
\* of the thread included, the list sent to the model holds at most one message with
\* the id sys_context, and that message is right behind the instruction system message
\* (the first one of the list; a list that has none starts with the context message).
C33_OneContextBehindInstruction ==
    /\ Cardinality(SentContext) <= 1
    /\ \A i \in SentContext :
           IF SentInstructions = {} THEN i = 1
           ELSE i > 1 /\ i - 1 \in SentInstructions
                /\ \A j \in SentInstructions : i - 1 <= j

\* the chatbot node ran again after tools, in a later turn, with a context to pass on
C33_Witness ==
    /\ SentContext = {2}
    /\ Cardinality(SentInstructions) >= 2
    /\ cb.sent[Len(cb.sent)].type = "tool"

====
